---------------------------- MODULE Spec2Model ----------------------------
(***************************************************************************)
(* Model of two subsystems of the repository:                              *)
(*                                                                         *)
(*  - backend/store/task_dag.go: the task_dag table and the transactions   *)
(*    RebuildTaskDAG and CreateTaskDAGV2 run against it (SpecDAG, the      *)
(*    callers may overlap; SpecDAGSeq, one call at a time);                *)
(*  - the slow query syncer (package slowquerysync): the Run loop, the     *)
(*    per-cycle fan-out syncSlowQuery and the per-instance routines.       *)
(*                                                                         *)
(* The database is PostgreSQL at its default isolation level (BeginTx is   *)
(* called with nil options): a statement sees the rows committed when it   *)
(* starts plus the transaction's own writes, a DELETE waits for the row    *)
(* locks of another open transaction, and a commit applies the             *)
(* transaction's deletes and inserts in one step.                          *)
(***************************************************************************)
EXTENDS Integers, Sequences, FiniteSets, TLC

\* ------------------------------------------------------------------ bounds
MaxFrom == 2
MaxCalls == 2

\* the task ids of one pipeline
Tasks == {1, 2, 3}
\* two callers of the store, which may run at the same time
Callers == {"c1", "c2"}
\* fromTaskIDs []int: the predecessor sets of at most MaxFrom tasks, each as the
\* list of its ids in ascending order
FromLists ==
    {l \in UNION {[1..n -> Tasks] : n \in 0..MaxFrom} :
        \A i, j \in DOMAIN l : i < j => l[i] < l[j]}

VARIABLES
    task_dag,   \* the committed rows of table task_dag: [id, from, to]
    tx,         \* per caller: the call in progress and its open transaction
    calls,      \* number of calls started so far (bounded by MaxCalls)
    last,       \* the arguments of the call that committed last
    instances,  \* store: per instance its Engine and Deleted flag
    policy,     \* store: per instance its slow query policy
    databases,  \* store: per instance the list of its databases
    source,     \* what each instance's engine reports as slow query statistics
    slow_query, \* store: the persisted slow log records
    unit,       \* per instance: the syncInstanceSlowQuery call in progress
    seen,       \* per instance: what its current or last run has done so far
    runs,       \* number of runs or cycles started so far
    loop,       \* the Run loop: its position, its inputs and the current cycle
    eval        \* a function applied on its own: its arguments and results

dagVars == <<task_dag, tx, calls, last>>
cfgVars == <<instances, policy, databases, source>>
syncVars == <<instances, policy, databases, source, slow_query, unit, seen, runs, loop>>
vars == <<task_dag, tx, calls, last,
          instances, policy, databases, source, slow_query, unit, seen, runs, loop,
          eval>>

\* no function has been applied
NoEval == [op |-> "none"]

\* ------------------------------------------------------------ DAG store
Range(s) == {s[i] : i \in DOMAIN s}

\* TaskDAGMessage as a pair <<FromTaskID, ToTaskID>>
TaskDAGMessage(r) == <<r.from, r.to>>

Edges(rows) == {TaskDAGMessage(r) : r \in rows}

EdgesTo(rows, toTaskID) == {e \in Edges(rows) : e[2] = toTaskID}

RowIds(rows) == {r.id : r \in rows}

\* DELETE FROM task_dag WHERE to_task_id = $1: the rows the statement sees
DeleteTargetsNone(rows, toTaskID) == {}
DeleteTargetsAll(rows, toTaskID) == RowIds(rows)
DeleteTargets(rows, toTaskID) == {r.id : r \in {x \in rows : x.to = toTaskID}}

NoTx == [pc |-> "idle", op |-> "none", from |-> <<>>, to |-> 0,
         snap |-> {}, del |-> {}, ins |-> {}]

NoCall == [op |-> "none", from |-> <<>>, to |-> 0]

\* no call has committed yet; prev is the call that committed before the last
NoLast == [op |-> "none", from |-> <<>>, to |-> 0, prev |-> NoCall]

Open(c) == tx[c].pc # "idle"

\* the row ids some committed row or some open transaction refers to
UsedIds ==
    RowIds(task_dag) \cup
    UNION {tx[c].snap \cup tx[c].del \cup RowIds(tx[c].ins) : c \in Callers}

\* the k-th row id not in use: the table's id column only has to be fresh
FreshId(k, used) ==
    CHOOSE i \in 1..(Cardinality(used) + k) :
        i \notin used /\ Cardinality({j \in 1..i : j \notin used}) = k

\* INSERT ... SELECT unnest(CAST($1 AS INTEGER[])), $2: one row per list element
InsertRows(fromTaskIDs, toTaskID, used) ==
    {[id |-> FreshId(i, used), from |-> fromTaskIDs[i], to |-> toTaskID] :
        i \in DOMAIN fromTaskIDs}

\* tx.Commit(): the deletes and the inserts of the transaction become visible together
CommitApply(rows, t) == {r \in rows : r.id \notin t.del} \cup t.ins

\* defer tx.Rollback(): an error return leaves the committed rows as they are
RollbackApplyAutocommit(rows, t) == {r \in rows : r.id \notin t.del}
RollbackApply(rows, t) == rows

\* Every error return of a call: the deferred Rollback runs, the call returns err.
ReturnErr(c) ==
    /\ task_dag' = RollbackApply(task_dag, tx[c])
    /\ tx' = [tx EXCEPT ![c] = NoTx]
    /\ UNCHANGED last

\* RebuildTaskDAG, line 25: s.db.BeginTx(ctx, nil)
RebuildBegin(c) ==
    /\ ~Open(c)
    /\ calls < MaxCalls
    /\ \E fromTaskIDs \in FromLists, toTaskID \in Tasks :
          tx' = [tx EXCEPT ![c] =
                   [NoTx EXCEPT !.pc = "begun", !.op = "rebuild",
                                !.from = fromTaskIDs, !.to = toTaskID]]
    /\ calls' = calls + 1
    /\ UNCHANGED <<task_dag, last>>
    /\ UNCHANGED <<syncVars, eval>>

\* RebuildTaskDAG, lines 25-28 and CreateTaskDAGV2, lines 77-80: BeginTx fails and
\* the call returns the error before it has touched the table
BeginFail(c) ==
    /\ ~Open(c)
    /\ calls < MaxCalls
    /\ UNCHANGED <<task_dag, tx, calls, last>>
    /\ UNCHANGED <<syncVars, eval>>

\* RebuildTaskDAG, lines 31-35: the DELETE statement starts and takes its snapshot
RebuildDeleteStart(c) ==
    /\ tx[c].pc = "begun" /\ tx[c].op = "rebuild"
    /\ tx' = [tx EXCEPT ![c] = [@ EXCEPT !.pc = "deleting",
                                          !.snap = DeleteTargets(task_dag, tx[c].to)]]
    /\ UNCHANGED <<task_dag, calls, last>>
    /\ UNCHANGED <<syncVars, eval>>

\* a row of the snapshot that another open transaction has deleted is locked
Locked(c) ==
    \E d \in Callers \ {c} :
        Open(d) /\ (tx[d].del \cap tx[c].snap \cap RowIds(task_dag)) # {}

\* RebuildTaskDAG, lines 31-35: the DELETE statement completes, once no row it
\* targets is locked; rows a committed transaction removed meanwhile are skipped.
RebuildDeleteFinish(c) ==
    /\ tx[c].pc = "deleting"
    /\ ~Locked(c)
    /\ tx' = [tx EXCEPT ![c] = [@ EXCEPT !.pc = "deleted",
                                          !.del = tx[c].snap \cap RowIds(task_dag)]]
    /\ UNCHANGED <<task_dag, calls, last>>
    /\ UNCHANGED <<syncVars, eval>>

\* RebuildTaskDAG, lines 37-48: the INSERT statement
RebuildInsert(c) ==
    /\ tx[c].pc = "deleted"
    /\ tx' = [tx EXCEPT ![c] = [@ EXCEPT !.pc = "inserted",
                                          !.ins = InsertRows(tx[c].from, tx[c].to, UsedIds)]]
    /\ UNCHANGED <<task_dag, calls, last>>
    /\ UNCHANGED <<syncVars, eval>>

\* RebuildTaskDAG, line 50: return tx.Commit()
RebuildCommit(c) ==
    /\ tx[c].pc = "inserted" /\ tx[c].op = "rebuild"
    /\ task_dag' = CommitApply(task_dag, tx[c])
    /\ last' = [op |-> tx[c].op, from |-> tx[c].from, to |-> tx[c].to,
                prev |-> [op |-> last.op, from |-> last.from, to |-> last.to]]
    /\ tx' = [tx EXCEPT ![c] = NoTx]
    /\ UNCHANGED calls
    /\ UNCHANGED <<syncVars, eval>>

\* RebuildTaskDAG, lines 33-35, 46-48, 50: a statement or the commit fails
RebuildFail(c) ==
    /\ tx[c].op = "rebuild"
    /\ tx[c].pc \in {"begun", "deleting", "deleted", "inserted"}
    /\ ReturnErr(c)
    /\ UNCHANGED calls
    /\ UNCHANGED <<syncVars, eval>>

RebuildTaskDAG(c) ==
    \/ RebuildBegin(c)
    \/ BeginFail(c)
    \/ RebuildDeleteStart(c)
    \/ RebuildDeleteFinish(c)
    \/ RebuildInsert(c)
    \/ RebuildCommit(c)
    \/ RebuildFail(c)

\* CreateTaskDAGV2, line 77: s.db.BeginTx(ctx, nil)
CreateBegin(c) ==
    /\ ~Open(c)
    /\ calls < MaxCalls
    /\ \E f \in Tasks, toTaskID \in Tasks :
          tx' = [tx EXCEPT ![c] =
                   [NoTx EXCEPT !.pc = "begun", !.op = "create",
                                !.from = <<f>>, !.to = toTaskID]]
    /\ calls' = calls + 1
    /\ UNCHANGED <<task_dag, last>>
    /\ UNCHANGED <<syncVars, eval>>

\* createTaskDAG: INSERT INTO task_dag ... VALUES ($1, $2) RETURNING ...
createTaskDAG(c) ==
    /\ tx[c].pc = "begun" /\ tx[c].op = "create"
    /\ tx' = [tx EXCEPT ![c] = [@ EXCEPT !.pc = "inserted",
                                          !.ins = InsertRows(tx[c].from, tx[c].to, UsedIds)]]
    /\ UNCHANGED <<task_dag, calls, last>>
    /\ UNCHANGED <<syncVars, eval>>

\* CreateTaskDAGV2, line 87: tx.Commit()
CreateCommit(c) ==
    /\ tx[c].pc = "inserted" /\ tx[c].op = "create"
    /\ task_dag' = CommitApply(task_dag, tx[c])
    /\ last' = [op |-> tx[c].op, from |-> tx[c].from, to |-> tx[c].to,
                prev |-> [op |-> last.op, from |-> last.from, to |-> last.to]]
    /\ tx' = [tx EXCEPT ![c] = NoTx]
    /\ UNCHANGED calls
    /\ UNCHANGED <<syncVars, eval>>

\* CreateTaskDAGV2, lines 83-89: the insert or the commit fails
CreateFail(c) ==
    /\ tx[c].op = "create"
    /\ tx[c].pc \in {"begun", "inserted"}
    /\ ReturnErr(c)
    /\ UNCHANGED calls
    /\ UNCHANGED <<syncVars, eval>>

CreateTaskDAGV2(c) ==
    \/ CreateBegin(c)
    \/ BeginFail(c)
    \/ createTaskDAG(c)
    \/ CreateCommit(c)
    \/ CreateFail(c)

\* edges an earlier plan may have left in the table
InitEdges == {<<1, 3>>, <<2, 3>>}

\* the tables a call may find: any of those edges, or a chain through two targets
InitTables == (SUBSET InitEdges) \cup {{<<1, 2>>, <<2, 3>>}}

RowsOf(edges) ==
    {[id |-> FreshId(1, {}) + Cardinality({x \in edges : x[1] < e[1]}),
      from |-> e[1], to |-> e[2]] : e \in edges}

InitDAG ==
    /\ task_dag \in {RowsOf(es) : es \in InitTables}
    /\ tx = [c \in Callers |-> NoTx]
    /\ calls = 0
    /\ last = NoLast
    /\ instances = <<>> /\ policy = <<>> /\ databases = <<>> /\ source = <<>>
    /\ slow_query = {} /\ unit = <<>> /\ seen = <<>> /\ runs = 0 /\ loop = <<>>
    /\ eval = NoEval

Alone(c) == \A d \in Callers \ {c} : ~Open(d)

NextDAG ==
    \/ \E c \in Callers : RebuildBegin(c)
    \/ \E c \in Callers : BeginFail(c)
    \/ \E c \in Callers : RebuildDeleteStart(c)
    \/ \E c \in Callers : RebuildDeleteFinish(c)
    \/ \E c \in Callers : RebuildInsert(c)
    \/ \E c \in Callers : RebuildCommit(c)
    \/ \E c \in Callers : RebuildFail(c)
    \/ \E c \in Callers : CreateBegin(c)
    \/ \E c \in Callers : createTaskDAG(c)
    \/ \E c \in Callers : CreateCommit(c)
    \/ \E c \in Callers : CreateFail(c)

\* the callers take turns: a call begins only when no other call is in progress
NextDAGSeq ==
    \/ \E c \in Callers : Alone(c) /\ RebuildBegin(c)
    \/ \E c \in Callers : Alone(c) /\ BeginFail(c)
    \/ \E c \in Callers : RebuildDeleteStart(c)
    \/ \E c \in Callers : RebuildDeleteFinish(c)
    \/ \E c \in Callers : RebuildInsert(c)
    \/ \E c \in Callers : RebuildCommit(c)
    \/ \E c \in Callers : RebuildFail(c)
    \/ \E c \in Callers : Alone(c) /\ CreateBegin(c)
    \/ \E c \in Callers : createTaskDAG(c)
    \/ \E c \in Callers : CreateCommit(c)
    \/ \E c \in Callers : CreateFail(c)

SpecDAG == InitDAG /\ [][NextDAG]_vars

SpecDAGSeq == InitDAG /\ [][NextDAGSeq]_vars

\* ------------------------------------------------- claims on the DAG store
\* the predecessor set a call passes, as edges into its target
FromEdges(t) == {<<t.from[i], t.to>> : i \in DOMAIN t.from}

OtherRows(rows, toTaskID) == {r \in rows : r.to # toTaskID}

RECURSIVE PathsUpTo(_, _)
\* the pairs <<a, b>> joined by a path of at most k + 1 edges of E
PathsUpTo(E, k) ==
    IF k = 0 THEN E
    ELSE LET P == PathsUpTo(E, k - 1)
             Step == UNION {{<<p[1], e[2]>> : e \in {x \in E : x[1] = p[2]}} : p \in P}
         IN  P \cup Step

\* whether the directed graph E over Tasks has a directed cycle
HasCycle(E) == \E t \in Tasks : <<t, t>> \in PathsUpTo(E, Cardinality(Tasks))

\* C1: RebuildTaskDAG is all-or-nothing when no other call overlaps it. The step
\* in which it commits leaves exactly the edges {(f, toTaskID) : f in fromTaskIDs}
\* on its target and the rows of every other target as they were; the step in
\* which it returns an error (at begin, delete, insert or commit) leaves the table
\* as it was; and no other step of the call changes the committed table, so no
\* committed state has the old edges deleted and the new ones missing.
C1_AllOrNothing ==
    [][\A c \in Callers :
          /\ RebuildCommit(c) =>
                /\ EdgesTo(task_dag', tx[c].to) = FromEdges(tx[c])
                /\ OtherRows(task_dag', tx[c].to) = OtherRows(task_dag, tx[c].to)
          /\ (RebuildFail(c) \/ BeginFail(c)) => task_dag' = task_dag
          /\ (tx[c].op = "rebuild" /\ tx'[c] # tx[c] /\ ~RebuildCommit(c)) =>
                task_dag' = task_dag]_vars

\* C1 witness: a rebuild of target 3, which had two predecessors, has committed
\* the single predecessor 2 as the second call.
C1_Witness ==
    /\ calls = MaxCalls
    /\ last.op = "rebuild" /\ last.from = <<2>> /\ last.to = 3
    /\ Edges(task_dag) = {<<2, 3>>}
    /\ \A c \in Callers : ~Open(c)

\* C2: when a rebuild of a target commits and the commit before it was a rebuild
\* of the same target, the target's edges are exactly the predecessor set of one
\* of the two calls, never a union or a mix of the two sets.
C2_SameTargetSerialize ==
    [][\A c \in Callers :
          (RebuildCommit(c) /\ last.op = "rebuild" /\ last.to = tx[c].to) =>
              EdgesTo(task_dag', tx[c].to) \in {FromEdges(tx[c]), FromEdges(last)}]_vars

\* C14: when no call is in progress and the call that committed last was a
\* rebuild, in a history of calls that do not overlap, the edges of its target
\* are exactly its predecessor set: nothing is left of an earlier rebuild of
\* the same target, and an empty set leaves the target without incoming edge.
C14_LastRebuildWins ==
    (last.op = "rebuild" /\ \A c \in Callers : ~Open(c))
        => EdgesTo(task_dag, last.to) = FromEdges(last)

\* C14 case: rebuild(3, {1, 2}) then rebuild(3, {2}) both committed, and the
\* edges of task 3 are exactly {(2, 3)}
C14_Witness ==
    /\ last.op = "rebuild" /\ last.from = <<2>> /\ last.to = 3
    /\ last.prev = [op |-> "rebuild", from |-> <<1, 2>>, to |-> 3]
    /\ EdgesTo(task_dag, 3) = {<<2, 3>>}
    /\ \A c \in Callers : ~Open(c)

\* the rows that hold an edge
RowsWith(rows, e) == {r \in rows : TaskDAGMessage(r) = e}

\* C16: a CreateTaskDAGV2 call commits only when its edge is not yet persisted,
\* and then adds exactly one row, with that edge; a call whose edge is already
\* persisted returns an error and leaves the rows as they are, the edge still
\* there once.
C16_CreateDuplicateRefused ==
    [][\A c \in Callers :
          /\ CreateCommit(c) =>
                /\ FromEdges(tx[c]) \cap Edges(task_dag) = {}
                /\ \E r \in task_dag' \ task_dag :
                      /\ task_dag' = task_dag \cup {r}
                      /\ {TaskDAGMessage(r)} = FromEdges(tx[c])
          /\ (CreateFail(c) /\ FromEdges(tx[c]) \subseteq Edges(task_dag)) =>
                /\ task_dag' = task_dag
                /\ \A e \in FromEdges(tx[c]) :
                      Cardinality(RowsWith(task_dag', e)) = 1]_vars

\* C3: the persisted edges are acyclic in every reachable state.
C3_Acyclic == ~HasCycle(Edges(task_dag))

\* ------------------------------------------------------ slow query syncer
\* retentionCycle is the number of days to keep slow query logs.
retentionCycle == 30

\* Time is counted in ticks, TicksPerDay of them to a day; a date is the tick of
\* its midnight. The clock reads Now, some time into day Today.
TicksPerDay == 2
Today == 40
MaxRuns == 2

Now == Today * TicksPerDay + 1

\* a nil *time.Time: no date
Nil == -1

\* t.Truncate(24 * time.Hour)
Truncate(t) == t - (t % TicksPerDay)

\* t.AddDate(0, 0, days)
AddDate(t, days) == t + days * TicksPerDay

Instances == {"i1", "i2"}

\* storepb.Engine: the two engines the syncer supports and one it does not
Engines == {"MYSQL", "POSTGRES", "REDIS"}

\* SlowQueryStatisticsItem
Item(fp, count, latest, total, maximum, rows) ==
    [SqlFingerprint |-> fp, Count |-> count, LatestLogTime |-> latest,
     TotalQueryTime |-> total, MaximumQueryTime |-> maximum, TotalRowsSent |-> rows]

\* ---- the store's slow log operations (backend/store, not among the sources)
SlowLogKey(r) == <<r.InstanceID, r.DatabaseName, r.LogDate>>

\* DeleteOutdatedSlowLog(ctx, instanceID, earliestDate)
DeleteOutdatedSlowLog(rows, instanceID, earliestDate) ==
    {r \in rows : ~(r.InstanceID = instanceID /\ r.LogDate < earliestDate)}

\* GetLatestSlowLogDate(ctx, instanceID): nil when the instance has no record
GetLatestSlowLogDate(rows, instanceID) ==
    LET ds == {r.LogDate : r \in {x \in rows : x.InstanceID = instanceID}}
    IN  IF ds = {} THEN Nil ELSE CHOOSE d \in ds : \A e \in ds : e <= d

\* UpsertSlowLog(ctx, message): the record of the key is overwritten
UpsertSlowLogInsert(rows, message) == rows \cup {message}
UpsertSlowLog(rows, message) ==
    {r \in rows : SlowLogKey(r) # SlowLogKey(message)} \cup {message}

UpsertSlowLogMessageOneInstance(instanceID, dbName, date, slowLog) ==
    [InstanceID |-> "i1", DatabaseName |-> dbName, LogDate |-> date,
     SlowLog |-> slowLog]
UpsertSlowLogMessage(instanceID, dbName, date, slowLog) ==
    [InstanceID |-> instanceID, DatabaseName |-> dbName, LogDate |-> date,
     SlowLog |-> slowLog]

\* ---- syncMySQLSlowQuery, lines 278-293
TodayOf(now) == Truncate(now)

EarliestDatePlusOne(today) == AddDate(today, 1 - retentionCycle)
EarliestDate(today) == AddDate(today, -retentionCycle)

\* lines 291-293 and 304: where the day loop starts
ResumeDateNextDay(latestSlowLogDate, today) ==
    IF latestSlowLogDate = Nil
          \/ AddDate(latestSlowLogDate, retentionCycle) < today
    THEN EarliestDate(today)
    ELSE AddDate(Truncate(latestSlowLogDate), 1)
ResumeDate(latestSlowLogDate, today) ==
    IF latestSlowLogDate = Nil
          \/ AddDate(latestSlowLogDate, retentionCycle) < today
    THEN EarliestDate(today)
    ELSE Truncate(latestSlowLogDate)

\* driver.SyncSlowQuery(ctx, date) of a MySQL instance: the databases the slow log
\* of that day mentions, each with the statistics of that day
MySQLLog(dbName, date) ==
    <<Item("q1", 1, date + 1, 3, 3, 2)>>

MySQLLogDatabases(i, date) == source[i].days[(date \div TicksPerDay) % 2]

\* the locals of a syncInstanceSlowQuery call: date is the day of the MySQL loop,
\* pending the databases of that day still to upsert (MySQL) or the statistics to
\* upsert (PostgreSQL), idx the index in the database list
NoUnit == [pc |-> "idle", result |-> "none", date |-> 0, pending |-> {},
           idx |-> 0, enabledDatabase |-> "", logMap |-> <<>>, latestLogDate |-> 0]

\* what a run has done: store writes and driver calls attempted, the days
\* fetched, the <<database, date>> pairs upserted, the first fetch that failed,
\* the databases probed, how many calls failed; pre is the store when the run
\* began and prevClean whether the run before it went through without a failure;
\* enabled is the database whose probe passed, target the database the
\* PostgreSQL snapshot fetch was issued against, notEnabled the sources (the
\* MySQL instance, a PostgreSQL database) whose logging check failed, listFailed
\* and upsertFailed the databases whose ListSlowQuery or UpsertSlowLog call failed
\* in the PostgreSQL loop
NoSeen == [writes |-> 0, driver |-> 0, fetched |-> <<>>, upserted |-> {},
           failedAt |-> Nil, probed |-> <<>>, failures |-> 0,
           policy |-> "none", pre |-> {}, prevClean |-> FALSE,
           enabled |-> "", target |-> "", notEnabled |-> {},
           listFailed |-> {}, upsertFailed |-> {}]

\* line 115: slowQueryPolicy == nil || !slowQueryPolicy.Active
PolicySkipsNilOnly(p) == p = "nil"
PolicySkips(p) == p \in {"nil", "inactive"}

Running(i) == unit[i].pc \notin {"idle", "done"}

\* the routine returns err (or nil): every deferred Close has run
Return(i, result) ==
    unit' = [unit EXCEPT ![i] = [NoUnit EXCEPT !.pc = "done", !.result = result]]

\* syncInstanceSlowQuery, lines 111-127: load the policy and pick the routine
syncInstanceSlowQuery(i) ==
    /\ unit[i].pc = "policy"
    /\ \E ok \in BOOLEAN :
          /\ IF ~ok THEN Return(i, "err")
             ELSE IF PolicySkips(policy[i]) THEN Return(i, "nil")
             ELSE IF instances[i].Engine = "MYSQL"
                  THEN unit' = [unit EXCEPT ![i].pc = "my_delete"]
             ELSE IF instances[i].Engine = "POSTGRES"
                  THEN unit' = [unit EXCEPT ![i].pc = "pg_delete"]
             ELSE Return(i, "err")
          /\ seen' = [seen EXCEPT ![i].policy = IF ok THEN "ok" ELSE "err",
                                  ![i].failures = IF ok THEN @ ELSE @ + 1]
    /\ UNCHANGED <<cfgVars, slow_query, runs, loop>>
    /\ UNCHANGED <<dagVars, eval>>

\* syncMySQLSlowQuery, lines 278-284: the retention sweep
MySQLDeleteOutdated(i) ==
    /\ unit[i].pc = "my_delete"
    /\ \E ok \in BOOLEAN :
          /\ IF ok THEN /\ slow_query' = DeleteOutdatedSlowLog(slow_query, i,
                                              EarliestDate(TodayOf(Now)))
                        /\ unit' = [unit EXCEPT ![i].pc = "my_latest"]
                   ELSE /\ UNCHANGED slow_query
                        /\ Return(i, "err")
          /\ seen' = [seen EXCEPT ![i].writes = @ + 1,
                                  ![i].failures = IF ok THEN @ ELSE @ + 1]
    /\ UNCHANGED <<cfgVars, runs, loop>>
    /\ UNCHANGED <<dagVars, eval>>

\* syncMySQLSlowQuery, lines 286-293: the latest persisted date, the resume point
MySQLLatestDate(i) ==
    /\ unit[i].pc = "my_latest"
    /\ \E ok \in BOOLEAN :
          IF ok THEN LET latest == GetLatestSlowLogDate(slow_query, i)
                     IN  /\ unit' = [unit EXCEPT ![i].pc = "my_driver",
                                      ![i].date = ResumeDate(latest, TodayOf(Now))]
                         /\ UNCHANGED seen
                ELSE /\ Return(i, "err")
                     /\ seen' = [seen EXCEPT ![i].failures = @ + 1]
    /\ UNCHANGED <<cfgVars, slow_query, runs, loop>>
    /\ UNCHANGED <<dagVars, eval>>

\* the loop condition of line 304: !date.After(today)
MySQLLoop(i, date) ==
    IF date <= TodayOf(Now)
    THEN unit' = [unit EXCEPT ![i].pc = "my_fetch", ![i].date = date]
    ELSE Return(i, "nil")

\* syncMySQLSlowQuery, lines 295-302: open the driver, check that logging is on
MySQLDriver(i) ==
    /\ unit[i].pc = "my_driver"
    /\ \E ok \in BOOLEAN :
          IF ok THEN unit' = [unit EXCEPT ![i].pc = "my_check"]
                ELSE Return(i, "err")
    /\ seen' = [seen EXCEPT ![i].driver = @ + 1,
                            ![i].failures = IF unit'[i].pc = "done" /\ unit'[i].result = "err"
                                            THEN @ + 1 ELSE @]
    /\ UNCHANGED <<cfgVars, slow_query, runs, loop>>
    /\ UNCHANGED <<dagVars, eval>>

\* lines 300-302: CheckSlowQueryLogEnabled returned an error
MySQLNotEnabledGoesOn(i) == MySQLLoop(i, unit[i].date)
MySQLNotEnabled(i) == Return(i, "err")

MySQLCheckEnabled(i) ==
    /\ unit[i].pc = "my_check"
    /\ \E ok \in BOOLEAN :
          /\ IF ok THEN MySQLLoop(i, unit[i].date)
                   ELSE MySQLNotEnabled(i)
          /\ seen' = [seen EXCEPT ![i].driver = @ + 1,
                                  ![i].failures = IF ok THEN @ ELSE @ + 1,
                                  ![i].notEnabled = IF ok THEN @ ELSE @ \cup {i}]
    /\ UNCHANGED <<cfgVars, slow_query, runs, loop>>
    /\ UNCHANGED <<dagVars, eval>>

\* after the fetch of a day and the upserts done so far: the next upsert of the
\* day, or the next day
MySQLNextDropsPending(i, pending) == MySQLLoop(i, AddDate(unit[i].date, 1))
MySQLNext(i, pending) ==
    IF pending # {}
    THEN unit' = [unit EXCEPT ![i].pc = "my_upsert", ![i].pending = pending]
    ELSE MySQLLoop(i, AddDate(unit[i].date, 1))

\* lines 306-308: the fetch of a day failed
MySQLFetchFailedSkipDay(i) == MySQLLoop(i, AddDate(unit[i].date, 1))
MySQLFetchFailed(i) == Return(i, "err")

\* syncMySQLSlowQuery, lines 305-308: driver.SyncSlowQuery(ctx, date)
MySQLFetch(i) ==
    /\ unit[i].pc = "my_fetch"
    /\ \E ok \in BOOLEAN :
          /\ IF ok THEN MySQLNext(i, MySQLLogDatabases(i, unit[i].date))
                   ELSE MySQLFetchFailed(i)
          /\ seen' = [seen EXCEPT ![i].driver = @ + 1,
                                  ![i].fetched = Append(@, unit[i].date),
                                  ![i].failures = IF ok THEN @ ELSE @ + 1,
                                  ![i].failedAt = IF ok \/ @ # Nil THEN @
                                                  ELSE unit[i].date]
    /\ UNCHANGED <<cfgVars, slow_query, runs, loop>>
    /\ UNCHANGED <<dagVars, eval>>

\* syncMySQLSlowQuery, lines 310-319: one step of the range over the day's map,
\* which visits the databases in any order
MySQLUpsert(i) ==
    /\ unit[i].pc = "my_upsert"
    /\ \E dbName \in unit[i].pending, ok \in BOOLEAN :
          /\ IF ok
             THEN /\ slow_query' = UpsertSlowLog(slow_query,
                        UpsertSlowLogMessage(i, dbName, unit[i].date,
                                             MySQLLog(dbName, unit[i].date)))
                  /\ MySQLNext(i, unit[i].pending \ {dbName})
             ELSE /\ UNCHANGED slow_query
                  /\ Return(i, "err")
          /\ seen' = [seen EXCEPT ![i].writes = @ + 1,
                        ![i].failures = IF ok THEN @ ELSE @ + 1,
                        ![i].upserted = IF ok THEN @ \cup {<<dbName, unit[i].date>>}
                                        ELSE @]
    /\ UNCHANGED <<cfgVars, runs, loop>>
    /\ UNCHANGED <<dagVars, eval>>

\* ---- syncPostgreSQLSlowQuery
\* pgparser.IsSystemDatabase (backend/plugin/parser/pg, not among the sources)
IsSystemDatabase(name) == name \in {"postgres", "template0", "template1"}

\* lines 148-153: the databases the probe loop does not skip
EligibleSystemToo(database) == database.SyncState = "OK"
Eligible(database) ==
    database.SyncState = "OK" /\ ~IsSystemDatabase(database.DatabaseName)

\* the first index from k on of a database the probe loop tries, 0 when none
NextEligible(i, k) ==
    LET ks == {j \in k..Len(databases[i]) : Eligible(databases[i][j])}
    IN  IF ks = {} THEN 0 ELSE CHOOSE j \in ks : \A l \in ks : j <= l

\* the first index from k on of a database the snapshot names, 0 when none
NextInLogMap(i, k, logMap) ==
    LET ks == {j \in k..Len(databases[i]) :
                  databases[i][j].DatabaseName \in DOMAIN logMap}
    IN  IF ks = {} THEN 0 ELSE CHOOSE j \in ks : \A l \in ks : j <= l

\* the zero time.Time
ZeroTime == 0

\* getLatestLogTime, lines 268-275: the time of the first item the range over
\* the map meets, that is the first item of any database that has one; the zero
\* time when there is no item
getLatestLogTimeNeverZero(logMap) == {Now}
getLatestLogTime(logMap) ==
    LET ts == {logMap[d][1].LatestLogTime : d \in {x \in DOMAIN logMap : Len(logMap[x]) > 0}}
    IN  IF ts = {} THEN {ZeroTime} ELSE ts

\* store.ListSlowQuery (backend/store, not among the sources): one SlowQueryLog
\* for each item of each record of the database dated in [start, end), with the
\* averages of the item
SlowQueryLog(item) ==
    [Statistics |->
        [SqlFingerprint |-> item.SqlFingerprint,
         Count |-> item.Count,
         LatestLogTime |-> item.LatestLogTime,
         AverageQueryTime |-> item.TotalQueryTime \div item.Count,
         MaximumQueryTime |-> item.MaximumQueryTime,
         AverageRowsSent |-> item.TotalRowsSent \div item.Count]]

ListSlowQuery(rows, instanceID, dbName, start, end) ==
    LET rs == {r \in rows : /\ r.InstanceID = instanceID
                            /\ r.DatabaseName = dbName
                            /\ start <= r.LogDate /\ r.LogDate < end}
    IN  IF rs = {} THEN <<>>
        ELSE LET r == CHOOSE x \in rs : \A y \in rs : x.LogDate <= y.LogDate
             IN  [k \in DOMAIN r.SlowLog |-> SlowQueryLog(r.SlowLog[k])]

RECURSIVE SeedStatus(_, _)
\* lines 235-237: status[item.SqlFingerprint] = item, in the order of the items
SeedStatus(status, items) ==
    IF items = <<>> THEN status
    ELSE LET item == Head(items)
             fps == DOMAIN status \cup {item.SqlFingerprint}
         IN  SeedStatus([fp \in fps |-> IF fp = item.SqlFingerprint THEN item
                                        ELSE status[fp]],
                        Tail(items))

Max(a, b) == IF a < b THEN b ELSE a

MergeOneNewItemAverage(status, log) ==
    LET st == log.Statistics
        fp == st.SqlFingerprint
    IN  IF fp \notin DOMAIN status
        THEN [f \in DOMAIN status \cup {fp} |->
                 IF f = fp
                 THEN Item(fp, st.Count, st.LatestLogTime,
                           st.AverageQueryTime,
                           st.MaximumQueryTime,
                           st.AverageRowsSent * st.Count)
                 ELSE status[f]]
        ELSE [status EXCEPT ![fp] =
                 Item(fp, @.Count + st.Count, @.LatestLogTime,
                      @.TotalQueryTime + st.AverageQueryTime * st.Count,
                      Max(@.MaximumQueryTime, st.MaximumQueryTime),
                      @.TotalRowsSent + st.AverageRowsSent * st.Count)]

MergeOneLatestOfBoth(status, log) ==
    LET st == log.Statistics
        fp == st.SqlFingerprint
    IN  IF fp \notin DOMAIN status
        THEN [f \in DOMAIN status \cup {fp} |->
                 IF f = fp
                 THEN Item(fp, st.Count, st.LatestLogTime,
                           st.AverageQueryTime * st.Count,
                           st.MaximumQueryTime,
                           st.AverageRowsSent * st.Count)
                 ELSE status[f]]
        ELSE [status EXCEPT ![fp] =
                 Item(fp, @.Count + st.Count,
                      Max(@.LatestLogTime, st.LatestLogTime),
                      @.TotalQueryTime + st.AverageQueryTime * st.Count,
                      Max(@.MaximumQueryTime, st.MaximumQueryTime),
                      @.TotalRowsSent + st.AverageRowsSent * st.Count)]

MergeOneLastMaximum(status, log) ==
    LET st == log.Statistics
        fp == st.SqlFingerprint
    IN  IF fp \notin DOMAIN status
        THEN [f \in DOMAIN status \cup {fp} |->
                 IF f = fp
                 THEN Item(fp, st.Count, st.LatestLogTime,
                           st.AverageQueryTime * st.Count,
                           st.MaximumQueryTime,
                           st.AverageRowsSent * st.Count)
                 ELSE status[f]]
        ELSE [status EXCEPT ![fp] =
                 Item(fp, @.Count + st.Count, @.LatestLogTime,
                      @.TotalQueryTime + st.AverageQueryTime * st.Count,
                      st.MaximumQueryTime,
                      @.TotalRowsSent + st.AverageRowsSent * st.Count)]

MergeOneKeepCount(status, log) ==
    LET st == log.Statistics
        fp == st.SqlFingerprint
    IN  IF fp \notin DOMAIN status
        THEN [f \in DOMAIN status \cup {fp} |->
                 IF f = fp
                 THEN Item(fp, st.Count, st.LatestLogTime,
                           st.AverageQueryTime * st.Count,
                           st.MaximumQueryTime,
                           st.AverageRowsSent * st.Count)
                 ELSE status[f]]
        ELSE [status EXCEPT ![fp] =
                 Item(fp, @.Count, @.LatestLogTime,
                      @.TotalQueryTime + st.AverageQueryTime * st.Count,
                      Max(@.MaximumQueryTime, st.MaximumQueryTime),
                      @.TotalRowsSent + st.AverageRowsSent * st.Count)]

\* lines 240-258: one persisted log merged into the map
MergeOne(status, log) ==
    LET st == log.Statistics
        fp == st.SqlFingerprint
    IN  IF fp \notin DOMAIN status
        THEN [f \in DOMAIN status \cup {fp} |->
                 IF f = fp
                 THEN Item(fp, st.Count, st.LatestLogTime,
                           st.AverageQueryTime * st.Count,
                           st.MaximumQueryTime,
                           st.AverageRowsSent * st.Count)
                 ELSE status[f]]
        ELSE [status EXCEPT ![fp] =
                 Item(fp, @.Count + st.Count, @.LatestLogTime,
                      @.TotalQueryTime + st.AverageQueryTime * st.Count,
                      Max(@.MaximumQueryTime, st.MaximumQueryTime),
                      @.TotalRowsSent + st.AverageRowsSent * st.Count)]

RECURSIVE MergeLogs(_, _)
MergeLogs(status, logs) ==
    IF logs = <<>> THEN status
    ELSE MergeLogs(MergeOne(status, Head(logs)), Tail(logs))

\* the lists that hold each element of the set once
Orderings(S) ==
    {l \in [1..Cardinality(S) -> S] : \A a, b \in DOMAIN l : a # b => l[a] # l[b]}

\* pgMergeSlowQueryLog, lines 232-266: the merged items, in each order the range
\* over the map may produce them
pgMergeSlowQueryLog(statistics, logs) ==
    LET status == MergeLogs(SeedStatus(<<>>, statistics), logs)
    IN  Orderings({status[fp] : fp \in DOMAIN status})

\* syncPostgreSQLSlowQuery, lines 130-136: the retention sweep
PostgreSQLDeleteOutdated(i) ==
    /\ unit[i].pc = "pg_delete"
    /\ \E ok \in BOOLEAN :
          /\ IF ok THEN /\ slow_query' = DeleteOutdatedSlowLog(slow_query, i,
                                              EarliestDate(TodayOf(Now)))
                        /\ unit' = [unit EXCEPT ![i].pc = "pg_list"]
                   ELSE /\ UNCHANGED slow_query
                        /\ Return(i, "err")
          /\ seen' = [seen EXCEPT ![i].writes = @ + 1,
                                  ![i].failures = IF ok THEN @ ELSE @ + 1]
    /\ UNCHANGED <<cfgVars, runs, loop>>
    /\ UNCHANGED <<dagVars, eval>>

\* lines 172-174 when the probe loop has gone past index k - 1 without a success
PostgreSQLProbeFrom(i, k) ==
    IF NextEligible(i, k) = 0 THEN Return(i, "err")
    ELSE unit' = [unit EXCEPT ![i].pc = "pg_probe", ![i].idx = NextEligible(i, k)]

\* lines 138-144: s.store.ListDatabases
PostgreSQLListDatabases(i) ==
    /\ unit[i].pc = "pg_list"
    /\ \E ok \in BOOLEAN :
          /\ IF ok THEN PostgreSQLProbeFrom(i, 1) ELSE Return(i, "err")
          /\ seen' = [seen EXCEPT ![i].failures =
                        IF unit'[i].pc = "done" THEN @ + 1 ELSE @]
    /\ UNCHANGED <<cfgVars, slow_query, runs, loop>>
    /\ UNCHANGED <<dagVars, eval>>

\* lines 147-170: one database is probed (driver opened, CheckSlowQueryLogEnabled)
PostgreSQLProbe(i) ==
    /\ unit[i].pc = "pg_probe"
    /\ \E ok \in BOOLEAN :
          /\ IF ok
             THEN unit' = [unit EXCEPT ![i].pc = "pg_driver",
                             ![i].enabledDatabase = databases[i][unit[i].idx].DatabaseName]
             ELSE PostgreSQLProbeFrom(i, unit[i].idx + 1)
          /\ seen' = [seen EXCEPT ![i].driver = @ + 1,
                        ![i].probed = Append(@, databases[i][unit[i].idx].DatabaseName),
                        ![i].enabled = IF ok THEN databases[i][unit[i].idx].DatabaseName
                                       ELSE @,
                        ![i].notEnabled =
                            IF ok THEN @
                            ELSE @ \cup {databases[i][unit[i].idx].DatabaseName},
                        ![i].failures = IF unit'[i].pc = "done" THEN @ + 1 ELSE @]
    /\ UNCHANGED <<cfgVars, slow_query, runs, loop>>
    /\ UNCHANGED <<dagVars, eval>>

\* lines 176-180: the driver of the enabled database
PostgreSQLDriver(i) ==
    /\ unit[i].pc = "pg_driver"
    /\ \E ok \in BOOLEAN :
          /\ IF ok THEN unit' = [unit EXCEPT ![i].pc = "pg_fetch"]
                   ELSE Return(i, "err")
          /\ seen' = [seen EXCEPT ![i].driver = @ + 1,
                                  ![i].failures = IF ok THEN @ ELSE @ + 1]
    /\ UNCHANGED <<cfgVars, slow_query, runs, loop>>
    /\ UNCHANGED <<dagVars, eval>>

\* the loop of lines 195-227 from index k on: the next database the snapshot
\* names, or the end of the routine
PostgreSQLLoop(i, k, logMap, latestLogDate) ==
    IF NextInLogMap(i, k, logMap) = 0 THEN Return(i, "nil")
    ELSE unit' = [unit EXCEPT ![i].pc = "pg_merge",
                              ![i].idx = NextInLogMap(i, k, logMap),
                              ![i].logMap = logMap,
                              ![i].latestLogDate = latestLogDate]

\* lines 182-193: the snapshot is fetched and its date taken
PostgreSQLFetch(i) ==
    /\ unit[i].pc = "pg_fetch"
    /\ \E ok \in BOOLEAN :
          /\ IF ok
             THEN \E latest \in getLatestLogTime(source[i].snapshot) :
                     IF latest = ZeroTime THEN Return(i, "nil")
                     ELSE PostgreSQLLoop(i, 1, source[i].snapshot, Truncate(latest))
             ELSE Return(i, "err")
          /\ seen' = [seen EXCEPT ![i].driver = @ + 1,
                                  ![i].fetched = Append(@, Now),
                                  ![i].target = unit[i].enabledDatabase,
                                  ![i].failures = IF ok THEN @ ELSE @ + 1]
    /\ UNCHANGED <<cfgVars, slow_query, runs, loop>>
    /\ UNCHANGED <<dagVars, eval>>

\* lines 196-216: the persisted logs of the day are listed and merged in
PostgreSQLMerge(i) ==
    /\ unit[i].pc = "pg_merge"
    /\ LET dbName == databases[i][unit[i].idx].DatabaseName
           statistics == unit[i].logMap[dbName]
           nextLogDate == AddDate(unit[i].latestLogDate, 1)
       IN  \E ok \in BOOLEAN :
              LET logs == IF ok THEN ListSlowQuery(slow_query, i, dbName,
                                         unit[i].latestLogDate, nextLogDate)
                          ELSE <<>>
              IN  /\ \E merged \in (IF Len(logs) # 0
                                    THEN pgMergeSlowQueryLog(statistics, logs)
                                    ELSE {statistics}) :
                        unit' = [unit EXCEPT ![i].pc = "pg_upsert",
                                             ![i].pending = merged]
                  /\ seen' = [seen EXCEPT ![i].failures = IF ok THEN @ ELSE @ + 1,
                                ![i].listFailed = IF ok THEN @ ELSE @ \cup {dbName}]
    /\ UNCHANGED <<cfgVars, slow_query, runs, loop>>
    /\ UNCHANGED <<dagVars, eval>>

\* lines 217-226: the upsert of the database; a failure is logged, the loop goes on
PostgreSQLUpsert(i) ==
    /\ unit[i].pc = "pg_upsert"
    /\ LET dbName == databases[i][unit[i].idx].DatabaseName
       IN  \E ok \in BOOLEAN :
              /\ slow_query' =
                    IF ok THEN UpsertSlowLog(slow_query,
                                  UpsertSlowLogMessage(i, dbName, unit[i].latestLogDate,
                                                       unit[i].pending))
                    ELSE slow_query
              /\ seen' = [seen EXCEPT ![i].writes = @ + 1,
                            ![i].failures = IF ok THEN @ ELSE @ + 1,
                            ![i].upserted = IF ok
                                            THEN @ \cup {<<dbName, unit[i].latestLogDate>>}
                                            ELSE @,
                            ![i].upsertFailed = IF ok THEN @ ELSE @ \cup {dbName}]
              /\ PostgreSQLLoop(i, unit[i].idx + 1, unit[i].logMap, unit[i].latestLogDate)
    /\ UNCHANGED <<cfgVars, runs, loop>>
    /\ UNCHANGED <<dagVars, eval>>

\* ---- one instance at a time, called directly (SpecRun)
\* the dates of the records the store may hold for the instance before a run
InitDateSets ==
    { {}, {AddDate(Truncate(Now), -40)},
      {AddDate(Truncate(Now), -40), AddDate(Truncate(Now), -10)},
      {AddDate(Truncate(Now), -31), AddDate(Truncate(Now), -30)},
      {AddDate(Truncate(Now), -5)}, {Truncate(Now)}, {AddDate(Truncate(Now), 1)} }

\* what a MySQL slow log mentions on even and on odd days
MySQLSources == { <<{}, {}>>, <<{"d1"}, {}>>, <<{"d1", "d2"}, {"d2"}>> }

Database(name, syncState) == [DatabaseName |-> name, SyncState |-> syncState]

\* the database lists of a PostgreSQL instance
DatabaseLists ==
    { <<>>,
      <<Database("d1", "OK")>>,
      <<Database("postgres", "OK"), Database("d1", "NOT_FOUND"), Database("d2", "OK")>>,
      <<Database("d1", "OK"), Database("d2", "OK")>> }

ItemToday == Item("q1", 2, Now, 5, 3, 3)
ItemYesterday == Item("q2", 1, Now - TicksPerDay, 2, 2, 1)
ItemOutdated == Item("q1", 1, AddDate(Now, -40), 1, 1, 1)

\* the snapshots pg_stat_statements may hold, by database name
Snapshots ==
    { <<>>,
      [d \in {"d1"} |-> <<>>],
      [d \in {"d1"} |-> <<ItemToday>>],
      [d \in {"d1"} |-> <<ItemYesterday, ItemToday>>],
      [d \in {"d1", "d2"} |-> IF d = "d1" THEN <<ItemToday>> ELSE <<ItemYesterday>>],
      [d \in {"d1", "d3"} |-> <<ItemToday, ItemYesterday>>],
      [d \in {"d2"} |-> <<ItemOutdated>>] }

InitRecords(i, dates) ==
    {UpsertSlowLogMessage(i, "d1", d, MySQLLog("d1", d)) : d \in dates}

\* the records of the instance that is not being synced
Bystander == InitRecords("i2", {AddDate(Truncate(Now), -40), Truncate(Now)})

InitRun ==
    /\ task_dag = {} /\ tx = <<>> /\ calls = 0 /\ last = NoCall
    /\ \E e \in Engines :
          instances = [i \in Instances |-> [Engine |-> e, Deleted |-> FALSE]]
    /\ policy \in [Instances -> {"nil", "inactive", "active"}]
    /\ policy["i2"] = "active"
    /\ \E dbs \in DatabaseLists, m \in MySQLSources, snap \in Snapshots :
          /\ (instances["i1"].Engine = "MYSQL") => (dbs = <<>> /\ snap = <<>>)
          /\ (instances["i1"].Engine = "POSTGRES") => (m = <<{}, {}>>)
          /\ (instances["i1"].Engine = "REDIS") =>
                (m = <<{}, {}>> /\ dbs = <<>> /\ snap = <<>>)
          /\ databases = [i \in Instances |-> dbs]
          /\ source = [i \in Instances |->
                         [days |-> [p \in {0, 1} |-> m[p + 1]], snapshot |-> snap]]
    /\ \E ds \in InitDateSets : slow_query = InitRecords("i1", ds) \cup Bystander
    /\ unit = [i \in Instances |-> NoUnit]
    /\ seen = [i \in Instances |-> NoSeen]
    /\ runs = 0
    /\ loop = <<>>
    /\ eval = NoEval

\* a caller invokes syncInstanceSlowQuery for instance i1
Invoke(i) ==
    /\ i = "i1"
    /\ ~Running(i)
    /\ runs < MaxRuns
    /\ runs' = runs + 1
    /\ unit' = [unit EXCEPT ![i] = [NoUnit EXCEPT !.pc = "policy"]]
    /\ seen' = [seen EXCEPT ![i] =
                   [NoSeen EXCEPT !.pre = slow_query,
                                  !.prevClean = /\ unit[i].pc = "done"
                                                /\ unit[i].result = "nil"
                                                /\ seen[i].failures = 0]]
    /\ UNCHANGED <<cfgVars, slow_query, loop>>
    /\ UNCHANGED <<dagVars, eval>>

NextRun ==
    \/ \E i \in Instances : Invoke(i)
    \/ \E i \in Instances : syncInstanceSlowQuery(i)
    \/ \E i \in Instances : MySQLDeleteOutdated(i)
    \/ \E i \in Instances : MySQLLatestDate(i)
    \/ \E i \in Instances : MySQLDriver(i)
    \/ \E i \in Instances : MySQLCheckEnabled(i)
    \/ \E i \in Instances : MySQLFetch(i)
    \/ \E i \in Instances : MySQLUpsert(i)
    \/ \E i \in Instances : PostgreSQLDeleteOutdated(i)
    \/ \E i \in Instances : PostgreSQLListDatabases(i)
    \/ \E i \in Instances : PostgreSQLProbe(i)
    \/ \E i \in Instances : PostgreSQLDriver(i)
    \/ \E i \in Instances : PostgreSQLFetch(i)
    \/ \E i \in Instances : PostgreSQLMerge(i)
    \/ \E i \in Instances : PostgreSQLUpsert(i)

SpecRun == InitRun /\ [][NextRun]_vars

\* ---- the syncer loop (SpecSched)
MaxTicks == 1
MaxRequests == 1

\* a nil *state.InstanceSlowQuerySyncMessage
NoMessage == ""

\* the instance IDs a request may carry; "gone" resolves to no instance
RequestIDs == Instances \cup {"gone"}

\* Run's position and what it waits on: ctx, the ticker's channel (buffer of
\* one), the request channel; resolved is the set of instances whose goroutine
\* the cycle has spawned
NoLoopSyncAtStart ==
    [pc |-> "sync", ctxDone |-> FALSE, tick |-> FALSE, ticks |-> 0,
     requests |-> 0, chan |-> <<>>, message |-> NoMessage,
     resolved |-> {}, cycles |-> 0, wgDone |-> 0]
NoLoop == [pc |-> "select", ctxDone |-> FALSE, tick |-> FALSE, ticks |-> 0,
           requests |-> 0, chan |-> <<>>, message |-> NoMessage,
           resolved |-> {}, cycles |-> 0, wgDone |-> 0]

Crashed == loop.pc = "crashed"
Returned == loop.pc = "returned"

schedFrame == <<cfgVars, slow_query, unit, seen, runs>>

\* the ticker fires; a tick that finds the buffer full is dropped
Tick ==
    /\ ~Crashed /\ ~Returned
    /\ loop.ticks < MaxTicks
    /\ loop' = [loop EXCEPT !.tick = TRUE, !.ticks = @ + 1]
    /\ UNCHANGED schedFrame
    /\ UNCHANGED <<dagVars, eval>>

\* a sender puts a message on stateCfg.InstanceSlowQuerySyncChan
Request(id) ==
    /\ ~Crashed /\ ~Returned
    /\ loop.requests < MaxRequests
    /\ loop' = [loop EXCEPT !.chan = Append(@, id), !.requests = @ + 1]
    /\ UNCHANGED schedFrame
    /\ UNCHANGED <<dagVars, eval>>

\* the context of Run is cancelled
Cancel ==
    /\ ~Crashed /\ ~Returned
    /\ ~loop.ctxDone
    /\ loop' = [loop EXCEPT !.ctxDone = TRUE]
    /\ UNCHANGED schedFrame
    /\ UNCHANGED <<dagVars, eval>>

\* Run, lines 58-60: case <-ctx.Done(); the return runs the deferred wg.Done()
\* of line 54
RunDoneNotTaken == FALSE
RunDone ==
    /\ loop.pc = "select"
    /\ loop.ctxDone
    /\ loop' = [loop EXCEPT !.pc = "returned", !.wgDone = @ + 1]
    /\ UNCHANGED schedFrame
    /\ UNCHANGED <<dagVars, eval>>

\* Run, lines 61-63: case message := <-s.stateCfg.InstanceSlowQuerySyncChan
RunMessage ==
    /\ loop.pc = "select"
    /\ loop.chan # <<>>
    /\ loop' = [loop EXCEPT !.pc = "sync", !.message = Head(loop.chan),
                            !.chan = Tail(@)]
    /\ UNCHANGED schedFrame
    /\ UNCHANGED <<dagVars, eval>>

\* Run, lines 64-66: case <-ticker.C
RunTick ==
    /\ loop.pc = "select"
    /\ loop.tick
    /\ loop' = [loop EXCEPT !.pc = "sync", !.message = NoMessage, !.tick = FALSE]
    /\ UNCHANGED schedFrame
    /\ UNCHANGED <<dagVars, eval>>

\* store.ListInstancesV2 (backend/store, not among the sources): every instance,
\* or the one with the resource ID of the find
ListInstancesV2(resourceID) ==
    {i \in Instances : resourceID = NoMessage \/ resourceID = i}

\* lines 82-86 and 94-96: the instances ListInstancesV2 finds for the message,
\* without the deleted ones
ResolvedWithDeleted(message) == ListInstancesV2(message)
Resolved(message) ==
    {i \in ListInstancesV2(message) : ~instances[i].Deleted}

\* syncSlowQuery, lines 71-106: list the instances and start a goroutine for
\* each; an error of the listing ends the cycle, and so does a panic of this
\* code, which the deferred recover of lines 72-80 catches
syncSlowQuery ==
    /\ loop.pc = "sync"
    /\ \E outcome \in {"ok", "err", "panic"} :
          IF outcome = "ok"
          THEN /\ loop' = [loop EXCEPT !.pc = "wait",
                                       !.resolved = Resolved(loop.message)]
               /\ unit' = [i \in Instances |->
                             IF i \in Resolved(loop.message)
                             THEN [NoUnit EXCEPT !.pc = "policy"] ELSE unit[i]]
               /\ seen' = [i \in Instances |->
                             IF i \in Resolved(loop.message)
                             THEN [NoSeen EXCEPT !.pre = slow_query] ELSE seen[i]]
          ELSE /\ loop' = [loop EXCEPT !.pc = "select", !.resolved = {},
                                       !.message = NoMessage, !.cycles = @ + 1]
               /\ UNCHANGED <<unit, seen>>
    /\ UNCHANGED <<cfgVars, slow_query, runs>>
    /\ UNCHANGED <<dagVars, eval>>

\* line 107, instanceWG.Wait(): every goroutine of the cycle has returned
WaitDoneNoWait == TRUE
WaitDoneAny == \E i \in loop.resolved : unit[i].pc = "done"
WaitDone == \A i \in loop.resolved : unit[i].pc = "done"

\* syncSlowQuery returns to Run's loop
Join ==
    /\ loop.pc = "wait"
    /\ WaitDone
    /\ loop' = [loop EXCEPT !.pc = "select", !.message = NoMessage,
                            !.cycles = @ + 1]
    /\ UNCHANGED schedFrame
    /\ UNCHANGED <<dagVars, eval>>

\* lines 98-105: a panic in the goroutine of an instance. The goroutine defers
\* instanceWG.Done() only; the recover of lines 72-80 is deferred in another
\* goroutine and does not see the panic, so the runtime ends the process, and
\* with it Run and every goroutine; what is in the store stays
UnitPanic(i) ==
    /\ loop.pc = "wait"
    /\ i \in loop.resolved
    /\ Running(i)
    /\ loop' = [NoLoop EXCEPT !.pc = "crashed"]
    /\ unit' = [j \in Instances |-> NoUnit]
    /\ seen' = [j \in Instances |-> NoSeen]
    /\ UNCHANGED <<cfgVars, slow_query, runs>>
    /\ UNCHANGED <<dagVars, eval>>

\* one step of the goroutine of an instance
UnitStep(i) ==
    \/ syncInstanceSlowQuery(i)
    \/ MySQLDeleteOutdated(i)
    \/ MySQLLatestDate(i)
    \/ MySQLDriver(i)
    \/ MySQLCheckEnabled(i)
    \/ MySQLFetch(i)
    \/ MySQLUpsert(i)
    \/ PostgreSQLDeleteOutdated(i)
    \/ PostgreSQLListDatabases(i)
    \/ PostgreSQLProbe(i)
    \/ PostgreSQLDriver(i)
    \/ PostgreSQLFetch(i)
    \/ PostgreSQLMerge(i)
    \/ PostgreSQLUpsert(i)

InitSched ==
    /\ task_dag = {} /\ tx = <<>> /\ calls = 0 /\ last = NoCall
    /\ \E e \in [Instances -> Engines], deleted \in BOOLEAN :
          instances = [i \in Instances |->
                         [Engine |-> e[i], Deleted |-> (i = "i2" /\ deleted)]]
    /\ policy \in [Instances -> {"inactive", "active"}]
    /\ policy["i2"] = "active"
    /\ databases = [i \in Instances |-> <<Database("d1", "OK")>>]
    /\ source = [i \in Instances |->
                    [days |-> [p \in {0, 1} |-> IF p = 0 THEN {"d1"} ELSE {}],
                     snapshot |-> [d \in {"d1"} |-> <<ItemToday>>]]]
    /\ slow_query = UNION {InitRecords(i, {Truncate(Now)}) : i \in Instances}
    /\ unit = [i \in Instances |-> NoUnit]
    /\ seen = [i \in Instances |-> NoSeen]
    /\ runs = 0
    /\ loop = NoLoop
    /\ eval = NoEval

NextSched ==
    \/ Tick
    \/ \E id \in RequestIDs : Request(id)
    \/ Cancel
    \/ RunDone
    \/ RunMessage
    \/ RunTick
    \/ syncSlowQuery
    \/ Join
    \/ \E i \in Instances : UnitPanic(i)
    \/ \E i \in Instances : syncInstanceSlowQuery(i)
    \/ \E i \in Instances : MySQLDeleteOutdated(i)
    \/ \E i \in Instances : MySQLLatestDate(i)
    \/ \E i \in Instances : MySQLDriver(i)
    \/ \E i \in Instances : MySQLCheckEnabled(i)
    \/ \E i \in Instances : MySQLFetch(i)
    \/ \E i \in Instances : MySQLUpsert(i)
    \/ \E i \in Instances : PostgreSQLDeleteOutdated(i)
    \/ \E i \in Instances : PostgreSQLListDatabases(i)
    \/ \E i \in Instances : PostgreSQLProbe(i)
    \/ \E i \in Instances : PostgreSQLDriver(i)
    \/ \E i \in Instances : PostgreSQLFetch(i)
    \/ \E i \in Instances : PostgreSQLMerge(i)
    \/ \E i \in Instances : PostgreSQLUpsert(i)

SpecSched == InitSched /\ [][NextSched]_vars

\* the Go scheduler runs every goroutine that can run: each instance's goroutine
\* takes its next step, Wait returns once it can, Run's select takes a case
\* when one is ready, and the listing of a cycle that has begun returns
SpecSchedFair ==
    /\ SpecSched
    /\ \A i \in Instances : WF_vars(UnitStep(i))
    /\ WF_vars(Join)
    /\ WF_vars(RunDone \/ RunMessage \/ RunTick)
    /\ WF_vars(syncSlowQuery)

\* ---- claims on one syncInstanceSlowQuery call
Last(seq) == seq[Len(seq)]

\* the days from one midnight through another, ascending, each once
DaysThrough(from, to) ==
    IF from > to THEN <<>>
    ELSE [k \in 1..((to - from) \div TicksPerDay + 1) |-> AddDate(from, k - 1)]

RecordsOf(rows, instanceID) == {r \in rows : r.InstanceID = instanceID}

\* a record set by key and per-fingerprint values, whatever the order of the items
KeysAndValues(rows) ==
    {[key |-> SlowLogKey(r), items |-> Range(r.SlowLog)] : r \in rows}

\* C4: while the policy of an instance is nil or not active, a
\* syncInstanceSlowQuery call for it never goes past the policy load: it attempts
\* no store write (neither the retention delete nor an upsert) and no driver
\* call, the store stays as it was when the call began, and once the policy has
\* loaded the call returns nil; this for each engine.
C4_InactivePolicyNoWrites ==
    \A i \in Instances :
        policy[i] \in {"nil", "inactive"} =>
            /\ unit[i].pc \in {"idle", "policy", "done"}
            /\ seen[i].writes = 0
            /\ seen[i].driver = 0
            /\ (unit[i].pc # "idle" => slow_query = seen[i].pre)
            /\ (unit[i].pc = "done" /\ seen[i].policy = "ok" => unit[i].result = "nil")

\* C4 case: a call for a PostgreSQL instance with an inactive policy has
\* returned nil and the outdated record of the instance is still in the store
C4_Witness ==
    /\ policy["i1"] = "inactive"
    /\ instances["i1"].Engine = "POSTGRES"
    /\ unit["i1"].pc = "done" /\ unit["i1"].result = "nil"
    /\ seen["i1"].policy = "ok"
    /\ \E r \in slow_query : r.InstanceID = "i1" /\ r.LogDate = AddDate(Truncate(Now), -40)

\* C7: a second syncInstanceSlowQuery call for the same instance, after a first
\* call that went through without a failure, with the source returning the same
\* data and no other writer, leaves the persisted record set (keys and
\* statistics values) as the first call left it; for MySQL and for PostgreSQL.
C7_RerunIdempotent ==
    \A i \in Instances :
        (/\ unit[i].pc = "done" /\ unit[i].result = "nil"
         /\ seen[i].failures = 0 /\ seen[i].prevClean)
            => KeysAndValues(slow_query) = KeysAndValues(seen[i].pre)

\* C8: a MySQL run that went through without a failure has fetched exactly the
\* days from max(latest persisted date, today - 30 days) through today (from
\* today - 30 days when the instance has no record), ascending and each once,
\* and every database a day's log returned has a record under that day.
C8_MySQLDays ==
    \A i \in Instances :
        (/\ instances[i].Engine = "MYSQL" /\ policy[i] = "active"
         /\ unit[i].pc = "done" /\ unit[i].result = "nil" /\ seen[i].failures = 0)
            => LET today == Truncate(Now)
                   floor == today - retentionCycle * TicksPerDay
                   lastKnown == GetLatestSlowLogDate(seen[i].pre, i)
                   from == IF lastKnown = Nil \/ lastKnown < floor THEN floor
                           ELSE lastKnown
                   days == DaysThrough(from, today)
               IN  /\ seen[i].fetched = days
                   /\ seen[i].upserted =
                        {<<dbName, days[k]>> :
                            dbName \in {"d1", "d2"}, k \in DOMAIN days}
                        \cap {p \in {"d1", "d2"} \X Range(days) :
                                 p[1] \in MySQLLogDatabases(i, p[2])}
                   /\ \A p \in seen[i].upserted :
                         UpsertSlowLogMessage(i, p[1], p[2], MySQLLog(p[1], p[2]))
                             \in slow_query

\* C8 case: the latest record was of today - 5 days, and the six days from
\* there through today have been fetched, with upserts among them
C8_Witness ==
    /\ instances["i1"].Engine = "MYSQL" /\ policy["i1"] = "active"
    /\ unit["i1"].pc = "done" /\ unit["i1"].result = "nil"
    /\ seen["i1"].failures = 0
    /\ GetLatestSlowLogDate(seen["i1"].pre, "i1") = AddDate(Truncate(Now), -5)
    /\ Len(seen["i1"].fetched) = 6
    /\ Cardinality(seen["i1"].upserted) = 9

\* C9: once the fetch of a day d has failed in a MySQL run, the run has returned
\* an error, d is the last day a fetch was issued for, every upsert of the run
\* is of a day before d, and the records of those upserts are in the store.
C9_MySQLFetchFailure ==
    \A i \in Instances :
        seen[i].failedAt # Nil
            => /\ unit[i].pc = "done" /\ unit[i].result = "err"
               /\ Last(seen[i].fetched) = seen[i].failedAt
               /\ \A k \in DOMAIN seen[i].fetched : seen[i].fetched[k] <= seen[i].failedAt
               /\ \A p \in seen[i].upserted :
                     /\ p[2] < seen[i].failedAt
                     /\ UpsertSlowLogMessage(i, p[1], p[2], MySQLLog(p[1], p[2]))
                            \in slow_query

\* C9 case: the fetch of today - 2 days failed after the days from today - 5
\* days were fetched and upserted
C9_Witness ==
    /\ seen["i1"].failedAt = AddDate(Truncate(Now), -2)
    /\ seen["i1"].fetched = DaysThrough(AddDate(Truncate(Now), -5), AddDate(Truncate(Now), -2))
    /\ seen["i1"].upserted # {}
    /\ unit["i1"].pc = "done"

\* C10: right after the retention sweep of a MySQL or PostgreSQL run, the store
\* holds exactly the records it held when the run began without those of the
\* instance dated before today - 30 days; the record of today - 30 days and the
\* records of other instances are kept.
C10_RetentionSweep ==
    \A i \in Instances :
        unit[i].pc \in {"my_latest", "pg_list"}
            => slow_query =
                  {r \in seen[i].pre :
                      \/ r.InstanceID # i
                      \/ r.LogDate >= Truncate(Now) - retentionCycle * TicksPerDay}

\* C10 case: the instance had records of today - 31 days and of today - 30
\* days; after the sweep the first is gone and the second is there
C10_Witness ==
    /\ unit["i1"].pc \in {"my_latest", "pg_list"}
    /\ \E r \in seen["i1"].pre :
          r.InstanceID = "i1" /\ r.LogDate = AddDate(Truncate(Now), -31)
    /\ \A r \in slow_query :
          r.InstanceID = "i1" => r.LogDate = AddDate(Truncate(Now), -30)
    /\ \E r \in slow_query : r.InstanceID = "i1"

\* C18: the store never holds two records with one key (instance, database,
\* date): an upsert of a key that is there replaces the record.
C18_OneRecordPerKey ==
    \A r1, r2 \in slow_query : SlowLogKey(r1) = SlowLogKey(r2) => r1 = r2

\* C18 case: a run has upserted a key that was in the store with other
\* statistics when the run began, and the store holds the new record
C18_Witness ==
    /\ unit["i1"].pc = "done"
    /\ \E p \in seen["i1"].upserted :
          \E old \in seen["i1"].pre, new \in slow_query :
              /\ SlowLogKey(old) = <<"i1", p[1], p[2]>>
              /\ SlowLogKey(new) = SlowLogKey(old)
              /\ new # old

\* ---- claims on the PostgreSQL routine
\* the snapshot holds at least one statistics item
HasItems(logMap) == \E d \in DOMAIN logMap : Len(logMap[d]) > 0

\* C11: a PostgreSQL run that went through without a failure on a snapshot with
\* items has upserted every database name that is a key of the snapshot, each
\* once and all under one date, and no other database.
C11_PostgreSQLUpsertPerSnapshotDatabase ==
    \A i \in Instances :
        (/\ instances[i].Engine = "POSTGRES" /\ policy[i] = "active"
         /\ unit[i].pc = "done" /\ unit[i].result = "nil" /\ seen[i].failures = 0
         /\ seen[i].fetched # <<>>
         /\ HasItems(source[i].snapshot))
            => /\ {p[1] : p \in seen[i].upserted} = DOMAIN source[i].snapshot
               /\ Cardinality({p[2] : p \in seen[i].upserted}) = 1
               /\ seen[i].writes = 1 + Cardinality(DOMAIN source[i].snapshot)

\* the latest LatestLogTime over every item of every database of the snapshot
MaxLogTime(logMap) ==
    LET ts == UNION {{logMap[d][k].LatestLogTime : k \in DOMAIN logMap[d]} :
                        d \in DOMAIN logMap}
    IN  CHOOSE t \in ts : \A u \in ts : u <= t

\* C12: while a PostgreSQL run merges and upserts, its latestLogDate is the
\* midnight of the latest LatestLogTime among all items of all databases of the
\* snapshot, whatever the order the map and the items are visited in.
C12_LatestLogDateIsMax ==
    \A i \in Instances :
        unit[i].pc \in {"pg_merge", "pg_upsert"}
            => unit[i].latestLogDate = Truncate(MaxLogTime(unit[i].logMap))

\* ---- pgMergeSlowQueryLog applied on its own (SpecMerge)
MaxCount == 2
MaxTotal == 3

\* the statistics items of one day: a fingerprint, a count and a total time
MergeItems ==
    {Item(fp, count, Now, total, 2, count) :
        fp \in {"q1", "q2"}, count \in 1..MaxCount, total \in 2..MaxTotal}

\* lists of items, one entry per fingerprint
MergeStatistics ==
    {l \in UNION {[1..n -> MergeItems] : n \in 0..2} :
        \A a, b \in DOMAIN l : a # b => l[a].SqlFingerprint # l[b].SqlFingerprint}

\* the same data as the incoming side of a merge: []*v1pb.SlowQueryLog
ToLogs(items) == [k \in DOMAIN items |-> SlowQueryLog(items[k])]

InitMerge ==
    /\ task_dag = {} /\ tx = <<>> /\ calls = 0 /\ last = NoCall
    /\ instances = <<>> /\ policy = <<>> /\ databases = <<>> /\ source = <<>>
    /\ slow_query = {} /\ unit = <<>> /\ seen = <<>> /\ runs = 0 /\ loop = <<>>
    /\ \E A \in MergeStatistics, B \in MergeStatistics :
          eval = [op |-> "args", A |-> A, B |-> B]

\* pgMergeSlowQueryLog(A, B as logs) and pgMergeSlowQueryLog(B, A as logs)
ApplyMerge ==
    /\ eval.op = "args"
    /\ \E ab \in pgMergeSlowQueryLog(eval.A, ToLogs(eval.B)),
          ba \in pgMergeSlowQueryLog(eval.B, ToLogs(eval.A)) :
          eval' = [op |-> "pgMergeSlowQueryLog", A |-> eval.A, B |-> eval.B,
                   ab |-> ab, ba |-> ba]
    /\ UNCHANGED <<dagVars, syncVars>>

NextMerge == ApplyMerge

SpecMerge == InitMerge /\ [][NextMerge]_vars

\* ---- claims on pgMergeSlowQueryLog
\* the aggregate a merged list holds for a fingerprint
Aggregate(items, fp, field) ==
    {items[k][field] : k \in {j \in DOMAIN items : items[j].SqlFingerprint = fp}}

\* every total of the list is a whole multiple of its count
WholeAverages(items) ==
    \A k \in DOMAIN items : items[k].TotalQueryTime % items[k].Count = 0

\* C13 as stated: merging A with B incoming and merging B with A incoming give,
\* for every fingerprint, the same count and the same total query time.
C13_MergeCommutative ==
    eval.op = "pgMergeSlowQueryLog" =>
        \A fp \in {"q1", "q2"} :
            /\ Aggregate(eval.ab, fp, "Count") = Aggregate(eval.ba, fp, "Count")
            /\ Aggregate(eval.ab, fp, "TotalQueryTime")
                  = Aggregate(eval.ba, fp, "TotalQueryTime")

\* C13 amended: the two merges give the same count for every fingerprint, and
\* the same total query time when every total of A and of B is a whole multiple
\* of its count.
C13_MergeCommutativeWholeAverages ==
    eval.op = "pgMergeSlowQueryLog" =>
        \A fp \in {"q1", "q2"} :
            /\ Aggregate(eval.ab, fp, "Count") = Aggregate(eval.ba, fp, "Count")
            /\ (WholeAverages(eval.A) /\ WholeAverages(eval.B)) =>
                  Aggregate(eval.ab, fp, "TotalQueryTime")
                      = Aggregate(eval.ba, fp, "TotalQueryTime")

\* C13 case: A and B share fingerprint q1, with whole averages, B also has q2,
\* and the merge has added the counts of q1
C13_Witness ==
    /\ eval.op = "pgMergeSlowQueryLog"
    /\ eval.A = <<Item("q1", 2, Now, 2, 2, 2)>>
    /\ eval.B = <<Item("q2", 1, Now, 3, 2, 1), Item("q1", 1, Now, 3, 2, 1)>>
    /\ Aggregate(eval.ab, "q1", "Count") = {3}
    /\ Aggregate(eval.ab, "q1", "TotalQueryTime") = {5}

\* ---- ListTaskDags (SpecList)
\* table task as the query reads it: pipeline_id and stage_id of each task
TaskPlaces ==
    {[pipeline_id |-> 100, stage_id |-> 10], [pipeline_id |-> 100, stage_id |-> 20],
     [pipeline_id |-> 200, stage_id |-> 30]}

\* TaskDAGFind: a nil StageID or PipelineID is Nil
TaskDAGFinds ==
    [StageID : {Nil, 10, 20, 30}, PipelineID : {Nil, 100, 200}]

\* the WHERE clause of lines 97-103 on a row of task
Where(task, find, r) ==
    /\ find.StageID # Nil => task[r.from].stage_id = find.StageID
    /\ find.PipelineID # Nil => task[r.from].pipeline_id = find.PipelineID

\* the query of lines 115-123: task_dag, joined with task on from_task_id when a
\* filter is given
ListTaskDagsQuery(rows, task, find) ==
    {TaskDAGMessage(r) : r \in {x \in rows : Where(task, find, x)}}

InitList ==
    /\ task_dag \in {RowsOf(es) : es \in SUBSET ({1, 2} \X Tasks)}
    /\ tx = <<>> /\ calls = 0 /\ last = NoCall
    /\ instances = <<>> /\ policy = <<>> /\ databases = <<>> /\ source = <<>>
    /\ slow_query = {} /\ unit = <<>> /\ seen = <<>> /\ runs = 0 /\ loop = <<>>
    /\ \E task \in [Tasks -> TaskPlaces] : eval = [op |-> "args", task |-> task]

\* ListTaskDags, lines 95-148: one read-only transaction
ListTaskDags(find) ==
    /\ eval.op = "args"
    /\ \E ok \in BOOLEAN :
          eval' = [op |-> "ListTaskDags", task |-> eval.task, find |-> find,
                   err |-> ~ok,
                   taskDAGs |-> IF ok THEN ListTaskDagsQuery(task_dag, eval.task, find)
                                ELSE {}]
    /\ UNCHANGED <<dagVars, syncVars>>

NextList == \E find \in TaskDAGFinds : ListTaskDags(find)

SpecList == InitList /\ [][NextList]_vars

\* a task belongs to the stage and to the pipeline the find names
InFilter(task, find, t) ==
    /\ find.StageID # Nil => task[t].stage_id = find.StageID
    /\ find.PipelineID # Nil => task[t].pipeline_id = find.PipelineID

\* C15: a ListTaskDags call that succeeds returns exactly the persisted edges
\* whose from task and to task both belong to the stage and pipeline of the
\* find; with no filter, every persisted edge.
C15_ListTaskDagsBothEndpoints ==
    (eval.op = "ListTaskDags" /\ ~eval.err) =>
        eval.taskDAGs =
            {e \in Edges(task_dag) : /\ InFilter(eval.task, eval.find, e[1])
                                     /\ InFilter(eval.task, eval.find, e[2])}

\* ---- DAG traversal: isReady and detectCycle (SpecTraverse)
\* the states of a task; DONE is the terminal success
TaskStatuses == {"PENDING", "RUNNING", "DONE", "FAILED"}

\* the persisted edges in the order of their ids
RECURSIVE EdgeList(_)
EdgeList(rows) ==
    IF rows = {} THEN <<>>
    ELSE LET r == CHOOSE x \in rows : \A y \in rows : x.id <= y.id
         IN  <<TaskDAGMessage(r)>> \o EdgeList(rows \ {r})

\* isReady(taskID): go through the edges; the first edge into the task whose from
\* task is not in terminal success makes the task not ready
RECURSIVE isReadyAnyDone(_, _, _, _)
isReadyAnyDone(edges, status, taskID, found) ==
    IF edges = <<>> THEN found
    ELSE IF Head(edges)[2] = taskID /\ status[Head(edges)[1]] = "DONE"
         THEN TRUE
         ELSE isReadyAnyDone(Tail(edges), status, taskID,
                             found /\ Head(edges)[2] # taskID)
RECURSIVE isReadyLoop(_, _, _)
isReadyLoop(edges, status, taskID) ==
    IF edges = <<>> THEN TRUE
    ELSE IF Head(edges)[2] = taskID /\ status[Head(edges)[1]] # "DONE"
         THEN FALSE
         ELSE isReadyLoop(Tail(edges), status, taskID)

isReadySomePredecessor(rows, status, taskID) ==
    isReadyAnyDone(EdgeList(rows), status, taskID, TRUE)
isReady(rows, status, taskID) == isReadyLoop(EdgeList(rows), status, taskID)

\* the tasks with an edge in E
Nodes(E) == {e[1] : e \in E} \cup {e[2] : e \in E}

\* detectCycle(edges): take away, as long as there is one, every edge that
\* leaves a task no edge enters; a cycle is there when edges remain
RECURSIVE Prune(_)
Prune(E) ==
    LET sources == {n \in Nodes(E) : \A e \in E : e[2] # n}
        rest == {e \in E : e[1] \notin sources}
    IN  IF rest = E THEN E ELSE Prune(rest)

detectCycleNoSelfEdge(E) == Prune({e \in E : e[1] # e[2]}) # {}
detectCycle(E) == Prune(E) # {}

InitTraverse ==
    /\ task_dag \in {RowsOf(es) : es \in SUBSET (Tasks \X Tasks)}
    /\ tx = <<>> /\ calls = 0 /\ last = NoCall
    /\ instances = <<>> /\ policy = <<>> /\ databases = <<>> /\ source = <<>>
    /\ slow_query = {} /\ unit = <<>> /\ seen = <<>> /\ runs = 0 /\ loop = <<>>
    /\ \E status \in [Tasks -> TaskStatuses] : eval = [op |-> "args", status |-> status]

ApplyIsReady(taskID) ==
    /\ eval.op = "args"
    /\ eval' = [op |-> "isReady", status |-> eval.status, taskID |-> taskID,
                ready |-> isReady(task_dag, eval.status, taskID)]
    /\ UNCHANGED <<dagVars, syncVars>>

ApplyDetectCycle ==
    /\ eval.op = "args"
    /\ eval' = [op |-> "detectCycle", status |-> eval.status,
                cycle |-> detectCycle(Edges(task_dag))]
    /\ UNCHANGED <<dagVars, syncVars>>

NextTraverse ==
    \/ \E taskID \in Tasks : ApplyIsReady(taskID)
    \/ ApplyDetectCycle

SpecTraverse == InitTraverse /\ [][NextTraverse]_vars

\* C19: isReady(taskID) is true exactly when the from task of every persisted
\* edge into taskID is in terminal success; so it is true of a task without
\* incoming edge and false of a task with a predecessor in another state.
C19_IsReady ==
    eval.op = "isReady" =>
        /\ eval.ready <=> \A e \in EdgesTo(task_dag, eval.taskID) :
                              eval.status[e[1]] = "DONE"
        /\ EdgesTo(task_dag, eval.taskID) = {} => eval.ready
        /\ (\E e \in EdgesTo(task_dag, eval.taskID) : eval.status[e[1]] # "DONE")
              => ~eval.ready

\* C19 case: task 3 has predecessors 1, in terminal success, and 2, running,
\* and is not ready
C19_Witness ==
    /\ eval.op = "isReady" /\ eval.taskID = 3
    /\ EdgesTo(task_dag, 3) = {<<1, 3>>, <<2, 3>>}
    /\ eval.status[1] = "DONE" /\ eval.status[2] = "RUNNING"
    /\ ~eval.ready

\* C20: detectCycle(edges) is true exactly when the graph of the edges has a
\* directed cycle, that is a task from which a path of edges leads back to it.
C20_DetectCycle ==
    eval.op = "detectCycle" => (eval.cycle <=> HasCycle(Edges(task_dag)))

\* C20 case: detectCycle is true of {(1,2), (2,3), (3,1)}
C20_Witness ==
    /\ eval.op = "detectCycle"
    /\ Edges(task_dag) = {<<1, 2>>, <<2, 3>>, <<3, 1>>}
    /\ eval.cycle

\* ---- claims on the syncer loop
\* C5: whichever goroutines of a cycle fail with an error, the cycle ends only
\* when every non-deleted instance it resolved has been started and has run to
\* its return; the cycle does end (unless a panic ends the process), and a tick
\* or request pending when Run is back at its select is taken up, unless Run
\* returns on cancellation.
C5_FailureIsolation ==
    /\ [](loop.pc \in {"select", "sync", "returned"} =>
            \A i \in loop.resolved :
                /\ ~instances[i].Deleted
                /\ unit[i].pc = "done"
                /\ seen[i].policy # "none")
    /\ [](loop.pc = "wait" =>
            /\ loop.resolved = Resolved(loop.message)
            /\ \A i \in loop.resolved : unit[i].pc # "idle")
    /\ (loop.pc = "wait") ~> (loop.pc = "select" \/ Crashed)
    /\ (loop.pc = "select" /\ (loop.tick \/ loop.chan # <<>>))
          ~> (loop.pc = "sync" \/ Returned)

\* C5 case: in the first cycle instance i1 failed and instance i2 went through
\* and wrote its record, the cycle ended, and a second cycle has been taken up
C5_Witness ==
    /\ loop.pc = "sync" /\ loop.cycles = 1
    /\ loop.resolved = {"i1", "i2"}
    /\ unit["i1"].pc = "done" /\ unit["i1"].result = "err"
    /\ unit["i2"].pc = "done" /\ unit["i2"].result = "nil"
    /\ seen["i2"].upserted # {}

\* C6: no panic raised during a cycle, in the dispatch code or in the goroutine
\* of an instance, ends the process: it is recovered and Run goes back to its
\* select.
C6_PanicRecovered == ~Crashed

\* C17: once the context is cancelled, Run never leaves its select for a new
\* cycle, whether or not a tick or a request is pending: it can only return.
C17_NoCycleAfterCancel ==
    [][(loop.ctxDone /\ loop.pc = "select") => loop'.pc \in {"select", "returned"}]_vars

\* ---- claims on the day loop of syncMySQLSlowQuery
\* C21: within a MySQL run the days are fetched in strictly ascending order, one
\* day after the other; whenever a fetch is about to be issued or has been
\* issued for a later day, every database of each earlier fetched day has been
\* upserted and its record is in the store; and an upsert in progress is always
\* of the day fetched last.
C21_MySQLDaysInOrder ==
    \A i \in Instances :
        instances[i].Engine = "MYSQL" =>
            LET fetched == seen[i].fetched
            IN  /\ \A k \in 1..(Len(fetched) - 1) :
                      /\ fetched[k + 1] = AddDate(fetched[k], 1)
                      /\ \A dbName \in MySQLLogDatabases(i, fetched[k]) :
                            /\ <<dbName, fetched[k]>> \in seen[i].upserted
                            /\ UpsertSlowLogMessage(i, dbName, fetched[k],
                                   MySQLLog(dbName, fetched[k])) \in slow_query
                /\ \A p \in seen[i].upserted :
                      \E k \in DOMAIN fetched : fetched[k] = p[2]
                /\ unit[i].pc = "my_upsert" =>
                      /\ fetched # <<>>
                      /\ unit[i].date = Last(fetched)
                /\ unit[i].pc = "my_fetch" =>
                      /\ \A k \in DOMAIN fetched : fetched[k] < unit[i].date
                      /\ \A k \in DOMAIN fetched :
                            \A dbName \in MySQLLogDatabases(i, fetched[k]) :
                                <<dbName, fetched[k]>> \in seen[i].upserted

\* C21 case: the fetch of a third day is about to be issued, after two days that
\* each had databases to upsert
C21_Witness ==
    /\ instances["i1"].Engine = "MYSQL"
    /\ unit["i1"].pc = "my_fetch"
    /\ Len(seen["i1"].fetched) = 2
    /\ \E a, b \in {"d1", "d2"} :
          /\ <<a, seen["i1"].fetched[1]>> \in seen["i1"].upserted
          /\ <<b, seen["i1"].fetched[2]>> \in seen["i1"].upserted

\* ---- claims on the probe loop of syncPostgreSQLSlowQuery
\* the names of the listed databases that are not system databases and have sync
\* state OK, in list order
ProbeCandidates(dbs) ==
    SelectSeq([k \in DOMAIN dbs |-> dbs[k]],
              LAMBDA d : /\ d.SyncState = "OK"
                         /\ d.DatabaseName \notin {"postgres", "template0", "template1"})

\* C22: the PostgreSQL routine probes the non-system databases with sync state
\* OK in list order and stops at the first whose probe passes; the snapshot
\* fetch is issued at most once, against that database, and nothing is probed
\* after it. While no probe has passed there is no fetch and no upsert, and a
\* run of an active policy that ends without a passed probe ends with an error.
C22_PostgreSQLProbeFirstEnabled ==
    \A i \in Instances :
        instances[i].Engine = "POSTGRES" =>
            LET candidates == ProbeCandidates(databases[i])
                probed == seen[i].probed
            IN  /\ Len(probed) <= Len(candidates)
                /\ \A k \in DOMAIN probed : probed[k] = candidates[k].DatabaseName
                /\ seen[i].enabled # "" =>
                      /\ probed # <<>>
                      /\ seen[i].enabled = Last(probed)
                /\ Len(seen[i].fetched) <= 1
                /\ seen[i].fetched # <<>> =>
                      /\ seen[i].enabled # ""
                      /\ seen[i].target = seen[i].enabled
                /\ seen[i].enabled = "" =>
                      /\ seen[i].fetched = <<>>
                      /\ seen[i].upserted = {}
                      /\ (unit[i].pc = "done" /\ policy[i] = "active"
                            /\ seen[i].policy = "ok") => unit[i].result = "err"
                /\ unit[i].pc = "pg_probe" => seen[i].enabled = ""

\* C22 case: the probe of d1 failed, the probe of d2 passed, and the snapshot
\* has been fetched from d2
C22_Witness ==
    /\ instances["i1"].Engine = "POSTGRES"
    /\ seen["i1"].probed = <<"d1", "d2">>
    /\ seen["i1"].enabled = "d2"
    /\ seen["i1"].target = "d2"
    /\ seen["i1"].fetched # <<>>

\* C23: when the snapshot fetched by the PostgreSQL routine has no statistics
\* item (no database, or only databases with an empty list), the routine never
\* reaches the listing of persisted records nor an upsert, and a run whose calls
\* all succeeded has returned nil right after the fetch, having written nothing
\* but the retention sweep.
C23_EmptySnapshotNoOp ==
    \A i \in Instances :
        (instances[i].Engine = "POSTGRES" /\ ~HasItems(source[i].snapshot)) =>
            /\ unit[i].pc \notin {"pg_merge", "pg_upsert"}
            /\ seen[i].upserted = {}
            /\ seen[i].writes <= 1
            /\ (seen[i].fetched # <<>> /\ seen[i].failures = 0) =>
                  /\ unit[i].pc = "done" /\ unit[i].result = "nil"
                  /\ slow_query = DeleteOutdatedSlowLog(seen[i].pre, i,
                                       AddDate(Truncate(Now), -retentionCycle))

\* C23 case: the snapshot names d1 with an empty list, d1 is a listed database
\* with a record of today, and the run has returned nil after the fetch
C23_Witness ==
    /\ instances["i1"].Engine = "POSTGRES"
    /\ source["i1"].snapshot = [d \in {"d1"} |-> <<>>]
    /\ seen["i1"].target = "d1"
    /\ seen["i1"].fetched # <<>> /\ seen["i1"].failures = 0
    /\ unit["i1"].pc = "done" /\ unit["i1"].result = "nil"
    /\ \E r \in slow_query :
          r.InstanceID = "i1" /\ r.DatabaseName = "d1" /\ r.LogDate = Truncate(Now)

\* ---- pgMergeSlowQueryLog on persisted logs that may repeat a fingerprint
\* (SpecMergeLogs)
\* the persisted side of a merge: logs with average-based fields; a log observed
\* after Now has a larger maximum than the fetched items, one observed at Now a
\* smaller or equal one
PersistedLogs ==
    {[Statistics |->
         [SqlFingerprint |-> fp, Count |-> count, LatestLogTime |-> latest,
          AverageQueryTime |-> average,
          MaximumQueryTime |-> IF latest = Now THEN average ELSE average + 2,
          AverageRowsSent |-> average + 1]] :
        fp \in {"q1", "q2"}, count \in 1..MaxCount,
        latest \in {Now, Now + 1}, average \in 1..(MaxTotal - 1)}

InitMergeLogs ==
    /\ task_dag = {} /\ tx = <<>> /\ calls = 0 /\ last = NoCall
    /\ instances = <<>> /\ policy = <<>> /\ databases = <<>> /\ source = <<>>
    /\ slow_query = {} /\ unit = <<>> /\ seen = <<>> /\ runs = 0 /\ loop = <<>>
    /\ \E statistics \in MergeStatistics,
          logs \in UNION {[1..n -> PersistedLogs] : n \in 0..2} :
          eval = [op |-> "args", statistics |-> statistics, logs |-> logs]

\* pgMergeSlowQueryLog(statistics, logs)
ApplyMergeLogs ==
    /\ eval.op = "args"
    /\ \E result \in pgMergeSlowQueryLog(eval.statistics, eval.logs) :
          eval' = [op |-> "pgMergeSlowQueryLog", statistics |-> eval.statistics,
                   logs |-> eval.logs, result |-> result]
    /\ UNCHANGED <<dagVars, syncVars>>

NextMergeLogs == ApplyMergeLogs

SpecMergeLogs == InitMergeLogs /\ [][NextMergeLogs]_vars

\* ---- claims on pgMergeSlowQueryLog with persisted logs
RECURSIVE SumSeq(_)
SumSeq(s) == IF s = <<>> THEN 0 ELSE Head(s) + SumSeq(Tail(s))

\* the persisted logs of a fingerprint, in list order
LogsOf(logs, fp) ==
    LET picked == SelectSeq(logs, LAMBDA l : l.Statistics.SqlFingerprint = fp)
    IN  [k \in DOMAIN picked |-> picked[k].Statistics]

\* the fetched items of a fingerprint
ItemsOf(statistics, fp) ==
    SelectSeq(statistics, LAMBDA item : item.SqlFingerprint = fp)

\* the fingerprints of both sides of a merge
Fingerprints(statistics, logs) ==
    {statistics[k].SqlFingerprint : k \in DOMAIN statistics}
        \cup {logs[k].Statistics.SqlFingerprint : k \in DOMAIN logs}

\* C24: pgMergeSlowQueryLog returns one item for each fingerprint of either
\* side and no other; its count is the fetched count (0 if absent) plus the sum
\* of the persisted counts, its total query time the fetched total plus the sum
\* of average query time * count over the persisted logs, its maximum query time
\* the largest maximum of the contributing records, its total rows sent the
\* fetched total plus the sum of average rows sent * count.
C24_MergeSums ==
    eval.op = "pgMergeSlowQueryLog" =>
        LET fps == Fingerprints(eval.statistics, eval.logs)
        IN  /\ Len(eval.result) = Cardinality(fps)
            /\ \A fp \in fps :
                  LET out == ItemsOf(eval.result, fp)
                      existing == ItemsOf(eval.statistics, fp)
                      persisted == LogsOf(eval.logs, fp)
                      maxima ==
                          {existing[k].MaximumQueryTime : k \in DOMAIN existing}
                            \cup {persisted[k].MaximumQueryTime : k \in DOMAIN persisted}
                  IN  /\ Len(out) = 1
                      /\ out[1].Count =
                            SumSeq([k \in DOMAIN existing |-> existing[k].Count])
                              + SumSeq([k \in DOMAIN persisted |-> persisted[k].Count])
                      /\ out[1].TotalQueryTime =
                            SumSeq([k \in DOMAIN existing |-> existing[k].TotalQueryTime])
                              + SumSeq([k \in DOMAIN persisted |->
                                          persisted[k].AverageQueryTime * persisted[k].Count])
                      /\ out[1].MaximumQueryTime \in maxima
                      /\ \A m \in maxima : m <= out[1].MaximumQueryTime
                      /\ out[1].TotalRowsSent =
                            SumSeq([k \in DOMAIN existing |-> existing[k].TotalRowsSent])
                              + SumSeq([k \in DOMAIN persisted |->
                                          persisted[k].AverageRowsSent * persisted[k].Count])

\* C24 case: q1 is on both sides, with two persisted logs, one of them observed
\* later with a larger maximum; the merged q1 holds the sums and that maximum
C24_Witness ==
    /\ eval.op = "pgMergeSlowQueryLog"
    /\ eval.statistics = <<Item("q1", 2, Now, 3, 2, 2)>>
    /\ Len(LogsOf(eval.logs, "q1")) = 2
    /\ \E k \in DOMAIN eval.result :
          /\ eval.result[k].SqlFingerprint = "q1"
          /\ eval.result[k].Count = 5
          /\ eval.result[k].TotalQueryTime = 3 + 2 * 1 + 1 * 2
          /\ eval.result[k].MaximumQueryTime = 4

\* C25: pgMergeSlowQueryLog does not recompute the latest log time: the merged
\* item of a fingerprint that is among the fetched items keeps the fetched
\* item's latest log time, also when a persisted log of the fingerprint was
\* observed later; the merged item of a fingerprint that is only among the
\* persisted logs carries the latest log time of the first such log.
C25_MergeKeepsLatestLogTime ==
    eval.op = "pgMergeSlowQueryLog" =>
        \A fp \in Fingerprints(eval.statistics, eval.logs) :
            LET out == ItemsOf(eval.result, fp)
                existing == ItemsOf(eval.statistics, fp)
                persisted == LogsOf(eval.logs, fp)
            IN  /\ out # <<>>
                /\ \A k \in DOMAIN out :
                      out[k].LatestLogTime =
                          IF existing # <<>> THEN existing[1].LatestLogTime
                          ELSE persisted[1].LatestLogTime

\* C25 case: q1 was fetched with latest log time Now and has a persisted log
\* observed later, q2 has only a persisted log; the merged q1 still says Now and
\* the merged q2 says what its log said
C25_Witness ==
    /\ eval.op = "pgMergeSlowQueryLog"
    /\ \E k \in DOMAIN eval.statistics :
          /\ eval.statistics[k].SqlFingerprint = "q1"
          /\ eval.statistics[k].LatestLogTime = Now
    /\ ItemsOf(eval.statistics, "q2") = <<>>
    /\ \E k \in DOMAIN eval.logs :
          /\ eval.logs[k].Statistics.SqlFingerprint = "q1"
          /\ eval.logs[k].Statistics.LatestLogTime = Now + 1
    /\ \E k \in DOMAIN eval.result :
          /\ eval.result[k].SqlFingerprint = "q1"
          /\ eval.result[k].LatestLogTime = Now
    /\ \E k \in DOMAIN eval.result :
          /\ eval.result[k].SqlFingerprint = "q2"
          /\ eval.result[k].LatestLogTime = Now + 1

\* C26: a merge never decreases an aggregate: for every fingerprint among the
\* fetched items the merged count, total query time, maximum query time and
\* total rows sent are each at least the fetched item's; and with every input
\* count at least 1, every merged count is at least 1.
C26_MergeMonotone ==
    eval.op = "pgMergeSlowQueryLog" =>
        /\ \A k \in DOMAIN eval.statistics :
              LET existing == eval.statistics[k]
                  out == ItemsOf(eval.result, existing.SqlFingerprint)
              IN  /\ out # <<>>
                  /\ \A j \in DOMAIN out :
                        /\ out[j].Count >= existing.Count
                        /\ out[j].TotalQueryTime >= existing.TotalQueryTime
                        /\ out[j].MaximumQueryTime >= existing.MaximumQueryTime
                        /\ out[j].TotalRowsSent >= existing.TotalRowsSent
        /\ ((\A k \in DOMAIN eval.statistics : eval.statistics[k].Count >= 1)
              /\ (\A k \in DOMAIN eval.logs : eval.logs[k].Statistics.Count >= 1))
                => \A j \in DOMAIN eval.result : eval.result[j].Count >= 1

\* C26 case: q1 was fetched with maximum 2 and has a persisted log with maximum
\* 1; the merged q1 has a larger count and total and still maximum 2
C26_Witness ==
    /\ eval.op = "pgMergeSlowQueryLog"
    /\ eval.statistics = <<Item("q1", 1, Now, 2, 2, 1)>>
    /\ Len(eval.logs) = 1
    /\ eval.logs[1].Statistics.SqlFingerprint = "q1"
    /\ eval.logs[1].Statistics.MaximumQueryTime = 1
    /\ eval.result = <<Item("q1", 2, Now, 3, 2, 3)>>

\* ---- claims on the cycles of Run
\* C27: cycles never overlap: a sync run of an instance is in progress only
\* while syncSlowQuery waits for the goroutines of the cycle that dispatched it;
\* whenever Run is at its select, or a cycle is about to list its instances, or
\* Run has returned, no sync run of any instance is in progress.
C27_CyclesNeverOverlap ==
    /\ \A i \in Instances :
          Running(i) => (loop.pc = "wait" /\ i \in loop.resolved)
    /\ loop.pc \in {"select", "sync", "returned"} =>
          \A i \in Instances : unit[i].pc \in {"idle", "done"}

\* C27 case: a timer-triggered cycle waits for the run of i1, the run of i2 has
\* finished, and a request for i1 is already on the channel
C27_Witness ==
    /\ loop.pc = "wait" /\ loop.message = NoMessage
    /\ loop.resolved = {"i1", "i2"}
    /\ Running("i1") /\ unit["i2"].pc = "done"
    /\ loop.chan = <<"i1">>

\* the instances a cycle is to run for: the one the request names, or all of
\* them on a tick, in both cases without the deleted ones
Targets(message) ==
    IF message = NoMessage
    THEN {i \in Instances : ~instances[i].Deleted}
    ELSE {i \in Instances : i = message /\ ~instances[i].Deleted}

\* C28: when a cycle dispatches, a sync run starts for each of its targets (the
\* instance the request names if it is known and not deleted; every non-deleted
\* instance on a tick) and the other instances are left as they were; a cycle
\* whose listing fails starts no run; and no run starts at any other step, so a
\* cycle runs the routine once per target and never for a deleted instance.
C28_TargetResolution ==
    [][/\ (loop.pc = "sync" /\ loop'.pc = "wait") =>
              \A i \in Instances :
                  /\ i \in Targets(loop.message) => unit'[i].pc = "policy"
                  /\ i \notin Targets(loop.message) => unit'[i] = unit[i]
       /\ (loop.pc = "sync" /\ loop'.pc = "select") => unit' = unit
       /\ loop.pc # "sync" =>
              \A i \in Instances :
                  /\ unit'[i].pc = "policy" => unit[i].pc = "policy"
                  /\ instances[i].Deleted => unit'[i].pc = "idle"]_vars

\* C28 case: a cycle triggered by a request for i1 waits for the run of i1 while
\* i2, which is not deleted, has no run
C28_Witness ==
    /\ loop.pc = "wait" /\ loop.message = "i1"
    /\ loop.resolved = {"i1"}
    /\ Running("i1")
    /\ ~instances["i2"].Deleted
    /\ unit["i2"].pc = "idle"

\* C29: starting Run triggers nothing: as long as the ticker has not fired and
\* no request has been sent, Run is at its select (or has returned on
\* cancellation), no cycle has begun, no instance has a run, no store write and
\* no driver call has been attempted and the store is as it was; and at any
\* time the cycles begun are no more than the ticks fired plus the requests sent.
C29_StartupIsNoTrigger ==
    ~Crashed =>
        /\ (loop.ticks = 0 /\ loop.requests = 0) =>
              /\ loop.pc \in {"select", "returned"}
              /\ loop.cycles = 0
              /\ \A i \in Instances :
                    /\ unit[i].pc = "idle"
                    /\ seen[i].writes = 0 /\ seen[i].driver = 0
              /\ slow_query =
                    {UpsertSlowLogMessage(i, "d1", Truncate(Now),
                                          MySQLLog("d1", Truncate(Now))) :
                        i \in Instances}
        /\ loop.cycles + (IF loop.pc \in {"sync", "wait"} THEN 1 ELSE 0)
              <= loop.ticks + loop.requests

\* C29 case: Run was cancelled and has returned before any tick or request; the
\* store is untouched
C29_Witness ==
    /\ loop.pc = "returned"
    /\ loop.ticks = 0 /\ loop.requests = 0 /\ loop.cycles = 0
    /\ \A i \in Instances : unit[i].pc = "idle" /\ seen[i].writes = 0
    /\ Cardinality(slow_query) = 2

\* ---- claims on the logging check
\* C30: a source whose logging check failed is left alone for the rest of the
\* run. MySQL: the run has ended with an error, with no day fetched and no
\* record upserted, the check having been made once. PostgreSQL: the database
\* has been probed once, is not the enabled database, and the snapshot fetch is
\* not issued against it.
C30_NotEnabledSkipped ==
    \A i \in Instances :
        /\ (instances[i].Engine = "MYSQL" /\ seen[i].notEnabled # {}) =>
              /\ unit[i].pc = "done" /\ unit[i].result = "err"
              /\ seen[i].fetched = <<>>
              /\ seen[i].upserted = {}
              /\ seen[i].driver = 2
              /\ seen[i].writes = 1
        /\ instances[i].Engine = "POSTGRES" =>
              \A dbName \in seen[i].notEnabled :
                  /\ Cardinality({k \in DOMAIN seen[i].probed :
                                     seen[i].probed[k] = dbName}) = 1
                  /\ seen[i].enabled # dbName
                  /\ seen[i].target # dbName
                  /\ unit[i].pc = "pg_probe" =>
                        databases[i][unit[i].idx].DatabaseName # dbName

\* C30 case: the logging check of a MySQL instance failed, and the run has
\* returned an error with records still to resume from in the store
C30_Witness ==
    /\ instances["i1"].Engine = "MYSQL"
    /\ seen["i1"].notEnabled = {"i1"}
    /\ unit["i1"].pc = "done" /\ unit["i1"].result = "err"
    /\ GetLatestSlowLogDate(slow_query, "i1") = AddDate(Truncate(Now), -5)
    /\ source["i1"].days[0] # {}

\* ---- claims on concurrent calls of the DAG store
\* C31: rebuilds of different targets do not wait for each other: a rebuild
\* whose DELETE is in progress while every other open call has another target
\* finds none of its rows locked, the rows two such rebuilds delete are
\* disjoint, and once two rebuilds of different targets, the only calls made,
\* have both committed, the edges into each target are exactly the predecessor
\* set its caller passed.
C31_DifferentTargetsIndependent ==
    /\ \A c \in Callers :
          (/\ tx[c].op = "rebuild" /\ tx[c].pc = "deleting"
           /\ \A d \in Callers \ {c} : Open(d) => tx[d].to # tx[c].to)
              => /\ ~Locked(c)
                 /\ \A d \in Callers \ {c} :
                       (tx[d].snap \cup tx[d].del) \cap tx[c].snap = {}
    /\ (/\ calls = 2 /\ \A c \in Callers : ~Open(c)
        /\ last.op = "rebuild" /\ last.prev.op = "rebuild"
        /\ last.to # last.prev.to)
          => /\ EdgesTo(task_dag, last.to) = FromEdges(last)
             /\ EdgesTo(task_dag, last.prev.to) = FromEdges(last.prev)

\* C31 case: the table holds an edge into task 2 and one into task 3; c1 has
\* deleted the edge into 3 and not yet committed, and c2, rebuilding task 2, is
\* in its DELETE with the edge into 2 in its snapshot
C31_Witness ==
    /\ tx["c1"].op = "rebuild" /\ tx["c1"].to = 3
    /\ tx["c1"].pc \in {"deleted", "inserted"} /\ tx["c1"].del # {}
    /\ tx["c2"].op = "rebuild" /\ tx["c2"].to = 2
    /\ tx["c2"].pc = "deleting" /\ tx["c2"].snap # {}
    /\ tx["c1"].del \cap RowIds(task_dag) # {}

\* ---- claims on the shutdown of Run
\* C32: once the context of Run is cancelled, Run eventually returns, unless a
\* panic in an instance's goroutine has ended the process first; wg.Done() has
\* run once when Run has returned and not at all before; and neither the
\* cancellation nor the return of Run changes the run of any instance.
C32_ShutdownReturns ==
    /\ loop.ctxDone ~> (Returned \/ Crashed)
    /\ [](Returned => loop.wgDone = 1)
    /\ []((~Returned /\ ~Crashed) => loop.wgDone = 0)
    /\ [][((loop'.ctxDone /\ ~loop.ctxDone) \/ (loop'.pc = "returned" /\ ~Returned))
             => (unit' = unit /\ slow_query' = slow_query)]_vars
    /\ [][(loop'.pc = "returned" /\ ~Returned) =>
             \A i \in Instances : ~Running(i)]_vars

\* C32 case: the context was cancelled while a cycle waits for the run of i1,
\* which is still in progress
C32_Witness ==
    /\ loop.ctxDone
    /\ loop.pc = "wait"
    /\ Running("i1") /\ seen["i1"].writes >= 1
    /\ ~Returned

C34_NoRecordBeforeCutoff ==
    \A i \in Instances :
        (/\ instances[i].Engine \in {"MYSQL", "POSTGRES"} /\ policy[i] = "active"
         /\ unit[i].pc = "done" /\ unit[i].result = "nil" /\ seen[i].failures = 0)
            => \A r \in RecordsOf(slow_query, i) :
                  r.LogDate >= AddDate(Truncate(Now), -retentionCycle)

\* ---- claims on store failures in the PostgreSQL loop
\* C35: in a PostgreSQL run whose only failed calls are listings of persisted
\* records and upserts inside the loop, the run returns nil, every database of
\* the snapshot whose upsert did not fail has been upserted, and a database
\* whose listing failed holds the fetched statistics unmerged.
C35_PostgreSQLStoreFailureIsolated ==
    \A i \in Instances :
        (/\ instances[i].Engine = "POSTGRES" /\ policy[i] = "active"
         /\ unit[i].pc = "done" /\ seen[i].fetched # <<>>
         /\ HasItems(source[i].snapshot)
         /\ seen[i].listFailed \cup seen[i].upsertFailed # {}
         /\ seen[i].failures = Cardinality(seen[i].listFailed)
                                  + Cardinality(seen[i].upsertFailed))
            => /\ unit[i].result = "nil"
               /\ \A dbName \in DOMAIN source[i].snapshot :
                     \/ dbName \in seen[i].upsertFailed
                     \/ \E p \in seen[i].upserted : p[1] = dbName
               /\ \A dbName \in seen[i].listFailed \ seen[i].upsertFailed :
                     \E r \in RecordsOf(slow_query, i) :
                         /\ r.DatabaseName = dbName
                         /\ <<dbName, r.LogDate>> \in seen[i].upserted
                         /\ r.SlowLog = source[i].snapshot[dbName]

=============================================================================
